---- MODULE Spec2Model ----
(***************************************************************************)
(* XShaderCompiler: the HLSL parser's context-dependent cast rule and its  *)
(* type-name table, the statement disambiguation, the CompileShader        *)
(* pipeline, and the analyzer's intrinsic overload table.                  *)
(***************************************************************************)
EXTENDS Integers, Sequences, FiniteSets, TLC

VARIABLES
    \* ---- HLSLParser (one ParseSource call) ----
    pc,                     \* position of ParseSource / ParseProgram
    tokens,                 \* the scanner: tokens not yet accepted
    typeNameSymbolTable_,   \* HLSLParser::typeNameSymbolTable_
    frames,                 \* open ParseProgram / ParseCodeBlock activations
    stmnt,                  \* AST of the statement parsed last
    stmntTokens,            \* the tokens that statement was parsed from
    stmntTable,             \* the type-name table that statement was parsed under
    declared,               \* per open activation: type names its statements declared
    everDeclared,           \* type names declared so far in this program
    valuesDeclared,         \* variables, functions, textures and samplers declared so far
    hasErrors,              \* ReportHandler::HasErros()
    parseResult,            \* what ParseSource returned
    preports,               \* reports of the parser
    braceTknStack,          \* ParseAndIgnoreTechnique: the braces still open
    \* ---- CompileShader (one call) ----
    cpc,                    \* position inside CompileShader / CompileShaderPrimary
    call,                   \* the arguments of the call
    outputDescCopy,         \* outputDescCopy.sourceCode: the stream the pipeline writes
    statistics,             \* what has been done to outputDesc.statistics
    stagesRun,              \* the pipeline stages started, in order
    failedStage,            \* the stage that failed, or "none"
    callerOut,              \* content of the caller's output stream
    dummyOutputStream,      \* content of CompileShader's dummyOutputStream
    logReports,             \* reports submitted to the log sink
    outcome,                \* how the call ended
    primaryResult,          \* what CompileShaderPrimary returned
    \* ---- HLSLAnalyzer::AnalyzeFunctionCallIntrinsic (one call) ----
    ipc,                    \* position of the call
    icall,                  \* the FunctionCall node being analysed
    iwarnings,              \* warnings the analyzer reported for it
    \* ---- HLSLAnalyzer: declarations and one expression that refers to them ----
    apc,                    \* position of the analysis
    shaderTarget_,          \* HLSLAnalyzer::shaderTarget_
    shaderModel_,           \* HLSLAnalyzer::shaderModel_
    versionIn_,             \* HLSLAnalyzer::versionIn_
    entryPoint_,            \* HLSLAnalyzer::entryPoint_
    symTable_,              \* Analyzer::symTable_: the declarations registered
    globalStmnts,           \* Program::globalStmnts: the declarations, as decorated
    parsedStmnts,           \* the declarations as the parser returned them
    visited,                \* how many of them have been visited
    analysedExpr,           \* the expression analysed after them, as decorated
    programFlags,           \* Program::flags
    entryPointRef,          \* Program::entryPointRef: index in globalStmnts, 0 for null
    areports,               \* reports of the analyzer
    \* ---- HLSLParser: the annotations behind one declarator ----
    dpc,                    \* position of the parser
    dtokens,                \* the scanner: tokens not yet accepted
    dcontext,               \* the declaration the declarator belongs to
    dsource,                \* the annotations the tokens were written from
    allowPackOffsetDefault, \* the default argument of ParseVarDeclSemantic
    declarator,             \* what is stored in the VarDecl or FunctionDecl
    registers,              \* the Register nodes ParseRegister returned, in order
    dreports,               \* reports of the parser
    \* ---- HLSLAnalyzer::VisitSamplerDecl (one sampler) ----
    mpc,                    \* position of the visit
    statistics_,            \* HLSLAnalyzer::statistics_: null or the statistics
    samplerIdent,           \* SamplerDecl::ident
    samplerValue,           \* the value analysed last
    valuesAnalysed,         \* how many values have been analysed
    samplerState,           \* the local SamplerState of the visit
    samplerBefore,          \* state and reports in front of the value analysed last
    samplerSymbols,         \* the identifiers registered
    samplerStates,          \* statistics_->samplerStates
    mreports,               \* reports of the analyzer
    \* ---- CodeWriter (one writer) ----
    optionsStack_,          \* CodeWriter::optionsStack_
    openLine_,              \* CodeWriter::openLine_
    wout,                   \* what was written to the stream
    wcall,                  \* the call made last
    wbefore,                \* the writer that call was made on
    wcalls,                 \* how many calls were made
    \* ---- ConstExprEvaluator (one evaluation) ----
    epc,                    \* position of the evaluation
    constExpr,              \* the expression evaluated
    ecaller,                \* who evaluates
    ecallback,              \* the callback for variable accesses
    evaluation,             \* the evaluator behind EvaluateExpr and its result
    ereports,               \* reports of the caller
    \* ---- HLSLParser::AcceptIt (one token stream) ----
    lpc,                    \* position of the parser
    scanned,                \* the tokens from the current token on
    lcall,                  \* the call made last
    lbefore,                \* the tokens in front of that call
    lreports,               \* reports of the parser
    \* ---- HLSLAnalyzer (the statements of function bodies) ----
    bpc,                    \* position of the analyzer
    stored_,                \* entryPoint_, shaderModel_ and preferWrappers_
    bodyProgram,            \* the global statements of the program
    bodyVisited,            \* how many of them have been visited
    scopeStack,             \* the scopes of the symbol table, innermost last
    scopeLog,               \* the scopes opened and closed so far
    callIntrinsics,         \* ast->intrinsic of the function calls
    callFlags,              \* ast->flags of the function calls
    symbolRefs,             \* symbolRef of the variable identifiers
    aliasNames,             \* aliasName of the structures
    declFlags,              \* flags of the variable declarations
    bodyEntryPointRef,      \* program_->entryPointRef
    breports,               \* reports of the analyzer
    wildRead                \* what a read through a null expression yields

pvars == <<pc, tokens, typeNameSymbolTable_, frames, stmnt, stmntTokens,
           stmntTable, declared, everDeclared, valuesDeclared, hasErrors, parseResult, preports,
           braceTknStack>>
cvars == <<cpc, call, outputDescCopy, statistics, stagesRun, failedStage,
           callerOut, dummyOutputStream, logReports, outcome, primaryResult>>
ivars == <<ipc, icall, iwarnings>>
avars == <<apc, shaderTarget_, shaderModel_, versionIn_, entryPoint_, symTable_,
           globalStmnts, parsedStmnts, visited, analysedExpr, programFlags,
           entryPointRef, areports>>
dvars == <<dpc, dtokens, dcontext, dsource, allowPackOffsetDefault, declarator,
           registers, dreports>>
mvars == <<mpc, statistics_, samplerIdent, samplerValue, valuesAnalysed,
           samplerState, samplerBefore, samplerSymbols, samplerStates, mreports>>
wvars == <<optionsStack_, openLine_, wout, wcall, wbefore, wcalls>>
evars == <<epc, constExpr, ecaller, ecallback, evaluation, ereports>>
lvars == <<lpc, scanned, lcall, lbefore, lreports>>
bvars == <<bpc, stored_, bodyProgram, bodyVisited, scopeStack, scopeLog,
           callIntrinsics, callFlags, symbolRefs, aliasNames, declFlags,
           bodyEntryPointRef, breports, wildRead>>
vars  == <<pvars, cvars, ivars, avars, dvars, mvars, wvars, evars, lvars, bvars>>

(***************************************************************************)
(* Bounds                                                                  *)
(***************************************************************************)
MaxLocalItems   == 3    \* declarations and braces in front of the probed statement
MaxArrayIndices == 1    \* array indices on a variable identifier
MaxArgs         == 8    \* arguments of an analysed intrinsic call
MaxTechniqueTokens == 4 \* tokens behind the keyword of a technique
MaxLeadingStmnts == 1   \* statements in front of the analysed statement of a body

(***************************************************************************)
(* Tokens (Token::Types); a token is its type and its spelling             *)
(***************************************************************************)
T(ty, sp) == [type |-> ty, spell |-> sp]

tkEndOfStream == T("EndOfStream", "")
tkLBracket    == T("LBracket", "(")
tkRBracket    == T("RBracket", ")")
tkLCurly      == T("LCurly", "{")
tkRCurly      == T("RCurly", "}")
tkLParen      == T("LParen", "[")
tkRParen      == T("RParen", "]")
tkDot         == T("Dot", ".")
tkComma       == T("Comma", ",")
tkSemicolon   == T("Semicolon", ";")
tkTypedef     == T("Typedef", "typedef")
tkStruct      == T("Struct", "struct")
tkVoid        == T("Void", "void")
tkInt         == T("ScalarType", "int")
tkOne         == T("IntLiteral", "1")
tkMinus       == T("BinaryOp", "-")
tkAssign      == T("AssignOp", "=")
tkAddAssign   == T("AssignOp", "+=")
tkInc         == T("UnaryOp", "++")
tkDec         == T("UnaryOp", "--")
tkNot         == T("UnaryOp", "!")
Id(s)         == T("Ident", s)

nullptr == [type |-> "nullptr"]

\* A report of the report handler
Report(ty, msg) == [type |-> ty, message |-> msg]

\* Result of a parse function: the node it returns and the tokens left, or the
\* Report it threw.
Ok(ast, rest) == [ok |-> TRUE, ast |-> ast, rest |-> rest]
Fail          == [ok |-> FALSE]

\* The caller goes on with the callee's result; a Report the callee threw
\* passes through the caller.
Then(r, Continue(_)) == IF r.ok THEN Continue(r) ELSE Fail

(***************************************************************************)
(* The parts of the compiler are checked one at a time: while one runs,    *)
(* the variables of the others rest.                                       *)
(***************************************************************************)
ParserIdle ==
    /\ pc = "idle"
    /\ tokens = <<>>
    /\ typeNameSymbolTable_ = <<>>
    /\ frames = <<>>
    /\ stmnt = nullptr
    /\ stmntTokens = <<>>
    /\ stmntTable = <<>>
    /\ declared = <<>>
    /\ everDeclared = {}
    /\ valuesDeclared = {}
    /\ hasErrors = FALSE
    /\ parseResult = "none"
    /\ preports = <<>>
    /\ braceTknStack = <<>>

CompileIdle ==
    /\ cpc = "idle"
    /\ call = nullptr
    /\ outputDescCopy = "null"
    /\ statistics = <<>>
    /\ stagesRun = <<>>
    /\ failedStage = "none"
    /\ callerOut = <<>>
    /\ dummyOutputStream = <<>>
    /\ logReports = <<>>
    /\ outcome = "none"
    /\ primaryResult = "none"

IntrinsicIdle ==
    /\ ipc = "idle"
    /\ icall = nullptr
    /\ iwarnings = <<>>

AnalyzerIdle ==
    /\ apc = "idle"
    /\ shaderTarget_ = "Undefined"
    /\ shaderModel_ = 0
    /\ versionIn_ = ""
    /\ entryPoint_ = ""
    /\ symTable_ = {}
    /\ globalStmnts = <<>>
    /\ parsedStmnts = <<>>
    /\ visited = 0
    /\ analysedExpr = nullptr
    /\ programFlags = {}
    /\ entryPointRef = 0
    /\ areports = <<>>

AnnotationIdle ==
    /\ dpc = "idle"
    /\ dtokens = <<>>
    /\ dcontext = ""
    /\ dsource = <<>>
    /\ allowPackOffsetDefault = FALSE
    /\ declarator = nullptr
    /\ registers = <<>>
    /\ dreports = <<>>

SamplerIdle ==
    /\ mpc = "idle"
    /\ statistics_ = "null"
    /\ samplerIdent = ""
    /\ samplerValue = nullptr
    /\ valuesAnalysed = 0
    /\ samplerState = nullptr
    /\ samplerBefore = nullptr
    /\ samplerSymbols = {}
    /\ samplerStates = {}
    /\ mreports = <<>>

WriterIdle ==
    /\ optionsStack_ = <<>>
    /\ openLine_ = FALSE
    /\ wout = <<>>
    /\ wcall = "idle"
    /\ wbefore = nullptr
    /\ wcalls = 0

EvaluatorIdle ==
    /\ epc = "idle"
    /\ constExpr = nullptr
    /\ ecaller = "idle"
    /\ ecallback = "idle"
    /\ evaluation = nullptr
    /\ ereports = <<>>

DirectiveIdle ==
    /\ lpc = "idle"
    /\ scanned = <<>>
    /\ lcall = "idle"
    /\ lbefore = <<>>
    /\ lreports = <<>>

BodyIdle ==
    /\ bpc = "idle"
    /\ stored_ = nullptr
    /\ bodyProgram = <<>>
    /\ bodyVisited = 0
    /\ scopeStack = <<>>
    /\ scopeLog = <<>>
    /\ callIntrinsics = {}
    /\ callFlags = {}
    /\ symbolRefs = {}
    /\ aliasNames = {}
    /\ declFlags = {}
    /\ bodyEntryPointRef = ""
    /\ breports = <<>>
    /\ wildRead = "nullptr"

nonParserVars     == <<cvars, ivars, avars, dvars, mvars, wvars, evars, lvars, bvars>>
nonCompileVars    == <<pvars, ivars, avars, dvars, mvars, wvars, evars, lvars, bvars>>
nonIntrinsicVars  == <<pvars, cvars, avars, dvars, mvars, wvars, evars, lvars, bvars>>
nonAnalyzerVars   == <<pvars, cvars, ivars, dvars, mvars, wvars, evars, lvars, bvars>>
nonAnnotationVars == <<pvars, cvars, ivars, avars, mvars, wvars, evars, lvars, bvars>>
nonSamplerVars    == <<pvars, cvars, ivars, avars, dvars, wvars, evars, lvars, bvars>>
nonWriterVars     == <<pvars, cvars, ivars, avars, dvars, mvars, evars, lvars, bvars>>
nonEvaluatorVars  == <<pvars, cvars, ivars, avars, dvars, mvars, wvars, lvars, bvars>>
nonDirectiveVars  == <<pvars, cvars, ivars, avars, dvars, mvars, wvars, evars, bvars>>
nonBodyVars       == <<pvars, cvars, ivars, avars, dvars, mvars, wvars, evars, lvars>>

NonParserIdle     == CompileIdle /\ IntrinsicIdle /\ AnalyzerIdle /\ AnnotationIdle /\ SamplerIdle /\ WriterIdle /\ EvaluatorIdle /\ DirectiveIdle /\ BodyIdle
NonCompileIdle    == ParserIdle /\ IntrinsicIdle /\ AnalyzerIdle /\ AnnotationIdle /\ SamplerIdle /\ WriterIdle /\ EvaluatorIdle /\ DirectiveIdle /\ BodyIdle
NonIntrinsicIdle  == ParserIdle /\ CompileIdle /\ AnalyzerIdle /\ AnnotationIdle /\ SamplerIdle /\ WriterIdle /\ EvaluatorIdle /\ DirectiveIdle /\ BodyIdle
NonAnalyzerIdle   == ParserIdle /\ CompileIdle /\ IntrinsicIdle /\ AnnotationIdle /\ SamplerIdle /\ WriterIdle /\ EvaluatorIdle /\ DirectiveIdle /\ BodyIdle
NonAnnotationIdle == ParserIdle /\ CompileIdle /\ IntrinsicIdle /\ AnalyzerIdle /\ SamplerIdle /\ WriterIdle /\ EvaluatorIdle /\ DirectiveIdle /\ BodyIdle
NonSamplerIdle    == ParserIdle /\ CompileIdle /\ IntrinsicIdle /\ AnalyzerIdle /\ AnnotationIdle /\ WriterIdle /\ EvaluatorIdle /\ DirectiveIdle /\ BodyIdle
NonWriterIdle     == ParserIdle /\ CompileIdle /\ IntrinsicIdle /\ AnalyzerIdle /\ AnnotationIdle /\ SamplerIdle /\ EvaluatorIdle /\ DirectiveIdle /\ BodyIdle
NonEvaluatorIdle  == ParserIdle /\ CompileIdle /\ IntrinsicIdle /\ AnalyzerIdle /\ AnnotationIdle /\ SamplerIdle /\ WriterIdle /\ DirectiveIdle /\ BodyIdle
NonDirectiveIdle  == ParserIdle /\ CompileIdle /\ IntrinsicIdle /\ AnalyzerIdle /\ AnnotationIdle /\ SamplerIdle /\ WriterIdle /\ EvaluatorIdle /\ BodyIdle
NonBodyIdle       == ParserIdle /\ CompileIdle /\ IntrinsicIdle /\ AnalyzerIdle /\ AnnotationIdle /\ SamplerIdle /\ WriterIdle /\ EvaluatorIdle /\ DirectiveIdle

(***************************************************************************)
(* SymbolTable<bool>: an ordered list of scopes, each a set of identifiers *)
(***************************************************************************)
SymOpenScope(tbl) == Append(tbl, {})

SymCloseScope(tbl) == IF tbl = <<>> THEN tbl ELSE SubSeq(tbl, 1, Len(tbl) - 1)

SymRegister(tbl, ident) ==
    [tbl EXCEPT ![Len(tbl)] = tbl[Len(tbl)] \cup {ident}]

SymFetch(tbl, ident) == \E i \in 1..Len(tbl) : ident \in tbl[i]

(***************************************************************************)
(* HLSLParser: symbol table                                                *)
(***************************************************************************)
OpenScope(tbl) == SymOpenScope(tbl)

\* a CloseScope that leaves the scope open
CloseScope_ScopeKept(tbl) == tbl

CloseScope(tbl) == SymCloseScope(tbl)

RegisterTypeName(tbl, ident) == SymRegister(tbl, ident)

IsRegisteredTypeName(tbl, ident) == SymFetch(tbl, ident)

preDefinedTypes == <<"DWORD", "FLOAT", "VECTOR", "MATRIX", "STRING">>

RECURSIVE RegisterAll(_, _)
RegisterAll(tbl, idents) ==
    IF idents = <<>> THEN tbl
    ELSE RegisterAll(RegisterTypeName(tbl, Head(idents)), Tail(idents))

GeneratePreDefinedTypeAliases(tbl) == RegisterAll(tbl, preDefinedTypes)

(***************************************************************************)
(* Parser base: current token, Is, Accept                                  *)
(***************************************************************************)
Tkn(toks) == IF toks = <<>> THEN tkEndOfStream ELSE Head(toks)

Is(toks, ty) == Tkn(toks).type = ty

IsSpell(toks, ty, sp) == Tkn(toks) = T(ty, sp)

\* A Report thrown while a directive is processed leaves a stream no parse
\* function accepts a token from.
tkThrown == T("Undefined", "")

ParserAcceptIt(toks) ==
    IF toks = <<>> \/ Head(toks) = tkThrown THEN toks ELSE Tail(toks)

\* HLSLParser::ProcessDirective, applied to the stream behind the directive
ProcessDirective(ident, toks) ==
    IF ident = "line"
    THEN IF ~Is(toks, "IntLiteral") THEN <<tkThrown>>
         ELSE IF ~Is(ParserAcceptIt(toks), "StringLiteral") THEN <<tkThrown>>
         ELSE ParserAcceptIt(ParserAcceptIt(toks))
    ELSE <<tkThrown>>

\* HLSLParser::AcceptIt: the stream after the current token was accepted and
\* the directives behind it were processed
RECURSIVE AcceptIt(_), PostProcessDirectives(_)
AcceptIt(toks) == PostProcessDirectives(ParserAcceptIt(toks))

PostProcessDirectives(rest) ==
    IF Is(rest, "Directive")
    THEN PostProcessDirectives(ProcessDirective(Tkn(rest).spell, AcceptIt(rest)))
    ELSE rest

Accept(toks, ty) == IF Is(toks, ty) THEN Ok(Tkn(toks), AcceptIt(toks)) ELSE Fail

AcceptSpell(toks, ty, sp) ==
    IF IsSpell(toks, ty, sp) THEN Ok(Tkn(toks), AcceptIt(toks)) ELSE Fail

Semi(toks) == Accept(toks, "Semicolon")

IsBaseDataType(toks) ==
    Is(toks, "ScalarType") \/ Is(toks, "VectorType") \/ Is(toks, "MatrixType")
        \/ Is(toks, "StringType")

IsDataType(toks) ==
    IsBaseDataType(toks) \/ Is(toks, "Vector") \/ Is(toks, "Matrix")
        \/ Is(toks, "Texture") \/ Is(toks, "Sampler") \/ Is(toks, "SamplerState")

IsLiteral(toks) ==
    Is(toks, "BoolLiteral") \/ Is(toks, "IntLiteral") \/ Is(toks, "FloatLiteral")
        \/ Is(toks, "StringLiteral")

IsArithmeticUnaryExpr(toks) ==
    IsSpell(toks, "BinaryOp", "-") \/ IsSpell(toks, "BinaryOp", "+")

\* the assignment operator a spelling stands for
StringToAssignOp(spell) ==
    CASE spell = "="   -> "Set"
      [] spell = "+="  -> "Add"
      [] spell = "-="  -> "Sub"
      [] spell = "*="  -> "Mul"
      [] spell = "/="  -> "Div"
      [] spell = "%="  -> "Mod"
      [] spell = "<<=" -> "LShift"
      [] spell = ">>=" -> "RShift"
      [] spell = "|="  -> "Or"
      [] spell = "&="  -> "And"
      [] spell = "^="  -> "Xor"
      [] OTHER         -> "Undefined"

ParseIdent(toks) ==
    Then(Accept(toks, "Ident"), LAMBDA a : Ok(a.ast.spell, a.rest))

(***************************************************************************)
(* HLSLParser: expressions.  Every parse function takes the type-name      *)
(* table and the token stream and returns the node and the stream left.    *)
(***************************************************************************)
\* a MakeToTypeNameIfLhsOfCastExpr that does not ask the type-name table
MakeToTypeNameIfLhsOfCastExpr_AnyIdent(tbl, expr) ==
    IF expr.type = "TypeNameExpr" THEN expr
    ELSE IF expr.type = "VarAccessExpr" /\ expr.varIdent.next = nullptr
         THEN [type |-> "TypeNameExpr",
               typeDenoter |-> [type |-> "AliasTypeDenoter",
                                ident |-> expr.varIdent.ident]]
         ELSE nullptr

MakeToTypeNameIfLhsOfCastExpr(tbl, expr) ==
    IF expr.type = "TypeNameExpr" THEN expr
    ELSE IF expr.type = "VarAccessExpr"
            /\ expr.varIdent.next = nullptr
            /\ IsRegisteredTypeName(tbl, expr.varIdent.ident)
         THEN [type |-> "TypeNameExpr",
               typeDenoter |-> [type |-> "AliasTypeDenoter",
                                ident |-> expr.varIdent.ident]]
         ELSE nullptr

\* The parse functions call each other through Parse, which selects the member
\* function by its name; the arguments follow in the order of the declaration
RECURSIVE Parse(_, _)

ParseArrayDimension(tbl, toks, allowDynamicDimension) ==
    Then(Accept(toks, "LParen"), LAMBDA a :
    Then(IF Is(a.rest, "RParen")
         THEN IF allowDynamicDimension THEN Ok([type |-> "NullExpr"], a.rest)
              ELSE Fail
         ELSE Parse("Expr", <<tbl, a.rest, FALSE, nullptr>>), LAMBDA e :
    Then(Accept(e.rest, "RParen"), LAMBDA c :
    Ok(e.ast, c.rest))))

ParseArrayDimensionList(tbl, toks, allowDynamicDimension) ==
    IF Is(toks, "LParen")
    THEN Then(Parse("ArrayDimension", <<tbl, toks, allowDynamicDimension>>), LAMBDA d :
         Then(Parse("ArrayDimensionList", <<tbl, d.rest, allowDynamicDimension>>),
              LAMBDA r :
         Ok(<<d.ast>> \o r.ast, r.rest)))
    ELSE Ok(<<>>, toks)

ParseVarIdent(tbl, toks) ==
    Then(ParseIdent(toks), LAMBDA i :
    Then(Parse("ArrayDimensionList", <<tbl, i.rest, FALSE>>), LAMBDA d :
    Then(IF Is(d.rest, "Dot") THEN Parse("VarIdent", <<tbl, AcceptIt(d.rest)>>)
         ELSE Ok(nullptr, d.rest), LAMBDA n :
    Ok([type |-> "VarIdent", ident |-> i.ast, arrayIndices |-> d.ast,
        next |-> n.ast], n.rest))))

\* The type keywords of the modelled programs are base data types, aliases
\* and struct names
ParseTypeDenoterPrimary(tbl, toks) ==
    IF IsBaseDataType(toks)
    THEN Ok([type |-> "BaseTypeDenoter", ident |-> Tkn(toks).spell], AcceptIt(toks))
    ELSE IF Is(toks, "Ident")
    THEN Ok([type |-> "AliasTypeDenoter", ident |-> Tkn(toks).spell], AcceptIt(toks))
    ELSE IF Is(toks, "Struct")
    THEN Then(ParseIdent(AcceptIt(toks)), LAMBDA i :
         Ok([type |-> "StructTypeDenoter", ident |-> i.ast], i.rest))
    ELSE Fail

ParseTypeDenoter(tbl, toks, allowVoidType) ==
    IF Is(toks, "Void")
    THEN IF allowVoidType
         THEN Ok([type |-> "VoidTypeDenoter", ident |-> ""], AcceptIt(toks))
         ELSE Fail
    ELSE Then(Parse("TypeDenoterPrimary", <<tbl, toks>>), LAMBDA t :
         IF Is(t.rest, "LParen")
         THEN Then(Parse("ArrayDimensionList", <<tbl, t.rest, FALSE>>), LAMBDA d :
              Ok([type |-> "ArrayTypeDenoter", baseTypeDenoter |-> t.ast,
                  arrayDims |-> d.ast], d.rest))
         ELSE t)

\* ParseExprList behind a comma: the loop ends on the list terminator if the
\* last comma is allowed
ParseExprsNext(tbl, toks, listTerminatorToken, allowLastComma) ==
    IF allowLastComma /\ Is(toks, listTerminatorToken) THEN Ok(<<>>, toks)
    ELSE Parse("Exprs", <<tbl, toks, listTerminatorToken, allowLastComma>>)

\* the loop of ParseExprList
ParseExprs(tbl, toks, listTerminatorToken, allowLastComma) ==
    Then(Parse("Expr", <<tbl, toks, FALSE, nullptr>>), LAMBDA e :
    Then(IF Is(e.rest, "Comma")
         THEN ParseExprsNext(tbl, AcceptIt(e.rest), listTerminatorToken,
                             allowLastComma)
         ELSE Ok(<<>>, e.rest), LAMBDA r :
    Ok(<<e.ast>> \o r.ast, r.rest)))

ParseExprList(tbl, toks, listTerminatorToken, allowLastComma) ==
    IF Is(toks, listTerminatorToken) THEN Ok(<<>>, toks)
    ELSE Parse("Exprs", <<tbl, toks, listTerminatorToken, allowLastComma>>)

ParseArgumentList(tbl, toks) ==
    Then(Accept(toks, "LBracket"), LAMBDA a :
    Then(Parse("ExprList", <<tbl, a.rest, "RBracket", FALSE>>), LAMBDA l :
    Then(Accept(l.rest, "RBracket"), LAMBDA c :
    Ok(l.ast, c.rest))))

\* ParseFunctionCall(VarIdentPtr) and ParseFunctionCall(const TypeDenoterPtr&)
ParseFunctionCall(tbl, toks, varIdent, typeDenoter) ==
    Then(IF typeDenoter # nullptr \/ varIdent # nullptr THEN Ok(varIdent, toks)
         ELSE IF IsDataType(toks)
         THEN Ok([type |-> "VarIdent", ident |-> Tkn(toks).spell,
                  arrayIndices |-> <<>>, next |-> nullptr], AcceptIt(toks))
         ELSE Parse("VarIdent", <<tbl, toks>>), LAMBDA v :
    Then(Parse("ArgumentList", <<tbl, v.rest>>), LAMBDA a :
    Ok([type |-> "FunctionCall", varIdent |-> v.ast, typeDenoter |-> typeDenoter,
        arguments |-> a.ast], a.rest)))

ParseSuffixExpr(tbl, toks, expr) ==
    Then(Accept(toks, "Dot"), LAMBDA a :
    Then(Parse("VarIdent", <<tbl, a.rest>>), LAMBDA v :
    Ok([type |-> "SuffixExpr", expr |-> expr, varIdent |-> v.ast], v.rest)))

ParseArrayAccessExpr(tbl, toks, expr) ==
    Then(Parse("ArrayDimensionList", <<tbl, toks, FALSE>>), LAMBDA d :
    Ok([type |-> "ArrayAccessExpr", expr |-> expr, arrayIndices |-> d.ast], d.rest))

\* an array access and a suffix may follow the expression e
ParseOptArrayAccessAndSuffix(tbl, e) ==
    Then(IF Is(e.rest, "LParen") THEN Parse("ArrayAccessExpr", <<tbl, e.rest, e.ast>>)
         ELSE e, LAMBDA e1 :
    IF Is(e1.rest, "Dot") THEN Parse("SuffixExpr", <<tbl, e1.rest, e1.ast>>)
    ELSE e1)

ParseFunctionCallExpr(tbl, toks, varIdent, typeDenoter) ==
    Then(Parse("FunctionCall", <<tbl, toks, varIdent, typeDenoter>>), LAMBDA c :
    ParseOptArrayAccessAndSuffix(
        tbl, Ok([type |-> "FunctionCallExpr", call |-> c.ast], c.rest)))

ParseVarAccessExpr(tbl, toks, varIdent) ==
    Then(IF varIdent # nullptr THEN Ok(varIdent, toks)
         ELSE Parse("VarIdent", <<tbl, toks>>), LAMBDA v :
    Then(IF Is(v.rest, "AssignOp")
         THEN Parse("Expr", <<tbl, AcceptIt(v.rest), FALSE, nullptr>>)
         ELSE Ok(nullptr, v.rest), LAMBDA e :
    Ok([type |-> "VarAccessExpr", varIdent |-> v.ast,
        assignOp |-> IF Is(v.rest, "AssignOp")
                     THEN StringToAssignOp(Tkn(v.rest).spell) ELSE "Undefined",
        assignExpr |-> e.ast], e.rest)))

ParseVarAccessOrFunctionCallExpr(tbl, toks) ==
    Then(Parse("VarIdent", <<tbl, toks>>), LAMBDA v :
    IF Is(v.rest, "LBracket")
    THEN Parse("FunctionCallExpr", <<tbl, v.rest, v.ast, nullptr>>)
    ELSE Parse("VarAccessExpr", <<tbl, v.rest, v.ast>>))

ParseInitializerExpr(tbl, toks) ==
    Then(Accept(toks, "LCurly"), LAMBDA a :
    Then(Parse("ExprList", <<tbl, a.rest, "RCurly", TRUE>>), LAMBDA l :
    Then(Accept(l.rest, "RCurly"), LAMBDA c :
    Ok([type |-> "InitializerExpr", exprs |-> l.ast], c.rest))))

ParseLiteralExpr(toks) ==
    IF ~IsLiteral(toks) THEN Fail
    ELSE Ok([type |-> "LiteralExpr", dataType |-> Tkn(toks).type,
             value |-> Tkn(toks).spell], AcceptIt(toks))

ParseLiteralOrSuffixExpr(tbl, toks) ==
    Then(ParseLiteralExpr(toks), LAMBDA l :
    IF Is(l.rest, "Dot") THEN Parse("SuffixExpr", <<tbl, l.rest, l.ast>>) ELSE l)

ParseTypeNameOrFunctionCallExpr(tbl, toks) ==
    IF ~IsDataType(toks) /\ ~Is(toks, "Struct") THEN Fail
    ELSE Then(Parse("TypeDenoter", <<tbl, toks, TRUE>>), LAMBDA t :
         IF Is(t.rest, "LBracket")
         THEN Parse("FunctionCallExpr", <<tbl, t.rest, nullptr, t.ast>>)
         ELSE Ok([type |-> "TypeNameExpr", typeDenoter |-> t.ast], t.rest))

ParseUnaryExpr(tbl, toks) ==
    IF ~Is(toks, "UnaryOp") /\ ~IsArithmeticUnaryExpr(toks) THEN Fail
    ELSE Then(Parse("PrimaryExpr", <<tbl, AcceptIt(toks)>>), LAMBDA e :
         Ok([type |-> "UnaryExpr", op |-> Tkn(toks).spell, expr |-> e.ast], e.rest))

\* ParseBracketOrCastExpr behind the closing bracket: the cast's operand, or
\* the bracket expression with its optional array access and suffix
ParseCastOrBracketTail(tbl, toks, expr, typeNameExpr) ==
    IF typeNameExpr # nullptr
    THEN Then(Parse("PrimaryExpr", <<tbl, toks>>), LAMBDA o :
         Ok([type |-> "CastExpr", typeExpr |-> typeNameExpr, expr |-> o.ast], o.rest))
    ELSE ParseOptArrayAccessAndSuffix(
             tbl, Ok([type |-> "BracketExpr", expr |-> expr], toks))

ParseBracketOrCastExpr(tbl, toks) ==
    Then(Accept(toks, "LBracket"), LAMBDA a :
    Then(Parse("Expr", <<tbl, a.rest, TRUE, nullptr>>), LAMBDA e :
    Then(Accept(e.rest, "RBracket"), LAMBDA c :
    ParseCastOrBracketTail(tbl, c.rest, e.ast,
                           MakeToTypeNameIfLhsOfCastExpr(tbl, e.ast)))))

ParsePrimaryExpr(tbl, toks) ==
    IF IsLiteral(toks) THEN Parse("LiteralOrSuffixExpr", <<tbl, toks>>)
    ELSE IF IsDataType(toks) \/ Is(toks, "Struct")
    THEN Parse("TypeNameOrFunctionCallExpr", <<tbl, toks>>)
    ELSE IF Is(toks, "UnaryOp") \/ IsArithmeticUnaryExpr(toks)
    THEN Parse("UnaryExpr", <<tbl, toks>>)
    ELSE IF Is(toks, "LBracket") THEN Parse("BracketOrCastExpr", <<tbl, toks>>)
    ELSE IF Is(toks, "LCurly") THEN Parse("InitializerExpr", <<tbl, toks>>)
    ELSE IF Is(toks, "Ident") THEN Parse("VarAccessOrFunctionCallExpr", <<tbl, toks>>)
    ELSE Fail

\* Parser::ParseGenericExpr: primary expressions joined by binary operators,
\* built left to right
ParseBinaryRest(tbl, toks, lhs) ==
    IF Is(toks, "BinaryOp")
    THEN Then(Parse("PrimaryExpr", <<tbl, AcceptIt(toks)>>), LAMBDA r :
         Parse("BinaryRest", <<tbl, r.rest,
                                [type |-> "BinaryExpr", lhsExpr |-> lhs,
                                 op |-> Tkn(toks).spell, rhsExpr |-> r.ast]>>))
    ELSE Ok(lhs, toks)

ParseGenericExpr(tbl, toks) ==
    Then(Parse("PrimaryExpr", <<tbl, toks>>), LAMBDA p :
    Parse("BinaryRest", <<tbl, p.rest, p.ast>>))

ParseExpr(tbl, toks, allowComma, initExpr) ==
    Then(IF initExpr # nullptr THEN Ok(initExpr, toks)
         ELSE Parse("GenericExpr", <<tbl, toks>>), LAMBDA g :
    Then(IF Is(g.rest, "UnaryOp")
         THEN Ok([type |-> "PostUnaryExpr", expr |-> g.ast,
                  op |-> Tkn(g.rest).spell], AcceptIt(g.rest))
         ELSE g, LAMBDA u :
    IF allowComma /\ Is(u.rest, "Comma")
    THEN Then(Parse("Expr", <<tbl, AcceptIt(u.rest), TRUE, nullptr>>), LAMBDA n :
         Ok([type |-> "ListExpr", firstExpr |-> u.ast, nextExpr |-> n.ast], n.rest))
    ELSE u))

(***************************************************************************)
(* HLSLParser: declarations.  These parse functions may register type      *)
(* names, so they also return the type-name table.                         *)
(***************************************************************************)
OkT(ast, rest, tbl) == [ok |-> TRUE, ast |-> ast, rest |-> rest, tbl |-> tbl]

\* The declarations of the modelled programs carry semantics, but neither
\* registers nor pack offsets
RECURSIVE ParseVarDeclSemantic(_)
ParseVarDeclSemantic(toks) ==
    IF Is(toks, "Colon")
    THEN Then(Accept(toks, "Colon"), LAMBDA c :
         Then(ParseIdent(c.rest), LAMBDA i :
         Then(ParseVarDeclSemantic(i.rest), LAMBDA r :
         Ok(IF r.ast = "" THEN i.ast ELSE r.ast, r.rest))))
    ELSE Ok("", toks)

ParseInitializer(tbl, toks) ==
    Then(AcceptSpell(toks, "AssignOp", "="), LAMBDA a :
    Parse("Expr", <<tbl, a.rest, FALSE, nullptr>>))

ParseVarDecl(tbl, toks, identTkn) ==
    Then(IF identTkn # nullptr THEN Ok(identTkn.spell, toks) ELSE ParseIdent(toks),
         LAMBDA i :
    Then(Parse("ArrayDimensionList", <<tbl, i.rest, TRUE>>), LAMBDA d :
    Then(ParseVarDeclSemantic(d.rest), LAMBDA m :
    Then(IF IsSpell(m.rest, "AssignOp", "=") THEN Parse("Initializer", <<tbl, m.rest>>)
         ELSE Ok(nullptr, m.rest), LAMBDA n :
    Ok([type |-> "VarDecl", ident |-> i.ast, arrayDims |-> d.ast,
        semantic |-> m.ast, initializer |-> n.ast], n.rest)))))

ParseVarDeclList(tbl, toks, firstIdentTkn) ==
    Then(Parse("VarDecl", <<tbl, toks, firstIdentTkn>>), LAMBDA v :
    Then(IF Is(v.rest, "Comma")
         THEN Parse("VarDeclList", <<tbl, AcceptIt(v.rest), nullptr>>)
         ELSE Ok(<<>>, v.rest), LAMBDA r :
    Ok(<<v.ast>> \o r.ast, r.rest)))

MakeVarType(structDecl) ==
    [type |-> "VarType", structDecl |-> structDecl,
     typeDenoter |-> [type |-> "StructTypeDenoter", ident |-> structDecl.ident]]

\* ParseStructDecl: the optional inheritance behind the structure name
ParseStructDeclBase(toks, ident) ==
    Then(Accept(toks, "Colon"), LAMBDA c :
    Then(ParseIdent(c.rest), LAMBDA n :
    IF n.ast = ident \/ Is(n.rest, "Comma") THEN Fail ELSE n))

\* ParseStructDecl: the structure name, registered as a type name
ParseStructDeclName(tbl, toks, identTkn) ==
    Then(IF identTkn # nullptr THEN Ok(identTkn.spell, toks) ELSE ParseIdent(toks),
         LAMBDA i :
    Then(IF Is(i.rest, "Colon") THEN ParseStructDeclBase(i.rest, i.ast)
         ELSE Ok("", i.rest), LAMBDA b :
    OkT([ident |-> i.ast, baseStructName |-> b.ast], b.rest,
        RegisterTypeName(tbl, i.ast))))

ParseStructDecl(tbl, toks, parseStructTkn, identTkn) ==
    Then(IF parseStructTkn THEN Accept(toks, "Struct") ELSE Ok(nullptr, toks),
         LAMBDA s :
    Then(IF Is(s.rest, "Ident") \/ identTkn # nullptr
         THEN ParseStructDeclName(tbl, s.rest, identTkn)
         ELSE OkT([ident |-> "", baseStructName |-> ""], s.rest, tbl), LAMBDA n :
    Then(Parse("VarDeclStmntList", <<n.tbl, n.rest>>), LAMBDA m :
    OkT([type |-> "StructDecl", ident |-> n.ast.ident,
         baseStructName |-> n.ast.baseStructName, members |-> m.ast],
        m.rest, m.tbl))))

\* the loop of ParseVarDeclStmntList and the closing brace
ParseVarDeclStmntMembers(tbl, toks) ==
    IF Is(toks, "RCurly") THEN OkT(<<>>, AcceptIt(toks), tbl)
    ELSE Then(Parse("VarDeclStmnt", <<tbl, toks>>), LAMBDA v :
         Then(Parse("VarDeclStmntMembers", <<v.tbl, v.rest>>), LAMBDA r :
         OkT(<<v.ast>> \o r.ast, r.rest, r.tbl)))

ParseVarDeclStmntList(tbl, toks) ==
    Then(Accept(toks, "LCurly"), LAMBDA a :
    Parse("VarDeclStmntMembers", <<tbl, a.rest>>))

\* ParseVarDeclStmnt: the storage classes and type modifiers in front of the
\* type denoter
RECURSIVE ParseVarDeclStmntModifiers(_)
ParseVarDeclStmntModifiers(toks) ==
    IF Is(toks, "StorageClass") \/ Is(toks, "TypeModifier")
    THEN Then(ParseVarDeclStmntModifiers(AcceptIt(toks)), LAMBDA r :
         Ok(<<Tkn(toks).spell>> \o r.ast, r.rest))
    ELSE Ok(<<>>, toks)

\* ParseVarDeclStmnt: the type denoter or the structure that ends the loop
ParseVarDeclStmntType(tbl, toks) ==
    IF Is(toks, "Ident") \/ IsDataType(toks)
    THEN Then(Parse("TypeDenoter", <<tbl, toks, TRUE>>), LAMBDA d :
         OkT([type |-> "VarType", structDecl |-> nullptr, typeDenoter |-> d.ast],
             d.rest, tbl))
    ELSE IF Is(toks, "Struct")
    THEN Then(Parse("StructDecl", <<tbl, toks, TRUE, nullptr>>), LAMBDA d :
         OkT(MakeVarType(d.ast), d.rest, d.tbl))
    ELSE Fail

\* (first with the variables registered as type names)
ParseVarDeclStmnt_Registered(tbl, toks) ==
    Then(ParseVarDeclStmntModifiers(toks), LAMBDA q :
    Then(ParseVarDeclStmntType(tbl, q.rest), LAMBDA t :
    Then(Parse("VarDeclList", <<t.tbl, t.rest, nullptr>>), LAMBDA l :
    Then(Semi(l.rest), LAMBDA e :
    OkT([type |-> "VarDeclStmnt", modifiers |-> q.ast, varType |-> t.ast,
         varDecls |-> l.ast], e.rest,
        RegisterAll(t.tbl, [k \in DOMAIN l.ast |-> l.ast[k].ident]))))))

ParseVarDeclStmnt(tbl, toks) ==
    Then(ParseVarDeclStmntModifiers(toks), LAMBDA q :
    Then(ParseVarDeclStmntType(tbl, q.rest), LAMBDA t :
    Then(Parse("VarDeclList", <<t.tbl, t.rest, nullptr>>), LAMBDA l :
    Then(Semi(l.rest), LAMBDA e :
    OkT([type |-> "VarDeclStmnt", modifiers |-> q.ast, varType |-> t.ast,
         varDecls |-> l.ast], e.rest, t.tbl)))))

\* ParseTypeDenoterWithStructDeclOpt behind "struct" and the structure name
ParseStructDeclOrStructTypeDenoter(tbl, structIdentTkn) ==
    IF Is(structIdentTkn.rest, "LCurly") \/ Is(structIdentTkn.rest, "Colon")
    THEN Then(Parse("StructDecl", <<tbl, structIdentTkn.rest, FALSE,
                                   structIdentTkn.ast>>), LAMBDA d :
         OkT(MakeVarType(d.ast), d.rest, d.tbl))
    ELSE OkT([type |-> "VarType", structDecl |-> nullptr,
              typeDenoter |-> [type |-> "StructTypeDenoter",
                               ident |-> structIdentTkn.ast.spell]],
             structIdentTkn.rest, tbl)

\* returns the VarType that holds the type denoter and the optional structure
ParseTypeDenoterWithStructDeclOpt(tbl, toks) ==
    IF Is(toks, "Struct")
    THEN IF Is(AcceptIt(toks), "LCurly")
         THEN Then(Parse("StructDecl", <<tbl, AcceptIt(toks), FALSE, nullptr>>),
                   LAMBDA d :
              OkT(MakeVarType(d.ast), d.rest, d.tbl))
         ELSE Then(Accept(AcceptIt(toks), "Ident"), LAMBDA structIdentTkn :
              ParseStructDeclOrStructTypeDenoter(tbl, structIdentTkn))
    ELSE Then(Parse("TypeDenoter", <<tbl, toks, TRUE>>), LAMBDA d :
         OkT([type |-> "VarType", structDecl |-> nullptr, typeDenoter |-> d.ast],
             d.rest, tbl))

ParseVarType(tbl, toks) == Parse("TypeDenoterWithStructDeclOpt", <<tbl, toks>>)

ParseAliasDecl(tbl, toks, typeDenoter) ==
    Then(ParseIdent(toks), LAMBDA i :
    Then(IF Is(i.rest, "LParen")
         THEN Parse("ArrayDimensionList", <<RegisterTypeName(tbl, i.ast), i.rest, FALSE>>)
         ELSE Ok(<<>>, i.rest), LAMBDA d :
    OkT([type |-> "AliasDecl", ident |-> i.ast,
         typeDenoter |-> IF Is(i.rest, "LParen")
                         THEN [type |-> "ArrayTypeDenoter",
                               baseTypeDenoter |-> typeDenoter, arrayDims |-> d.ast]
                         ELSE typeDenoter],
        d.rest, RegisterTypeName(tbl, i.ast))))

ParseAliasDeclList(tbl, toks, typeDenoter) ==
    Then(Parse("AliasDecl", <<tbl, toks, typeDenoter>>), LAMBDA a :
    Then(IF Is(a.rest, "Comma")
         THEN Parse("AliasDeclList", <<a.tbl, AcceptIt(a.rest), typeDenoter>>)
         ELSE OkT(<<>>, a.rest, a.tbl), LAMBDA r :
    OkT(<<a.ast>> \o r.ast, r.rest, r.tbl)))

ParseAliasDeclStmnt(tbl, toks) ==
    Then(Accept(toks, "Typedef"), LAMBDA a :
    Then(Parse("TypeDenoterWithStructDeclOpt", <<tbl, a.rest>>), LAMBDA t :
    Then(Parse("AliasDeclList", <<t.tbl, t.rest, t.ast.typeDenoter>>), LAMBDA l :
    Then(Semi(l.rest), LAMBDA e :
    OkT([type |-> "AliasDeclStmnt", structDecl |-> t.ast.structDecl,
         aliasDecls |-> l.ast], e.rest, l.tbl)))))

ParseStructDeclOrVarDeclStmnt(tbl, toks) ==
    Then(Parse("StructDecl", <<tbl, toks, TRUE, nullptr>>), LAMBDA d :
    IF ~Is(d.rest, "Semicolon")
    THEN Then(Parse("VarDeclList", <<d.tbl, d.rest, nullptr>>), LAMBDA l :
         Then(Semi(l.rest), LAMBDA e :
         OkT([type |-> "VarDeclStmnt", modifiers |-> <<>>,
              varType |-> MakeVarType(d.ast), varDecls |-> l.ast], e.rest, d.tbl)))
    ELSE Then(Semi(d.rest), LAMBDA e :
         OkT([type |-> "StructDeclStmnt", structDecl |-> d.ast], e.rest, d.tbl)))

\* ParseTextureDecl and ParseSamplerDecl; the textures and samplers of the
\* modelled programs carry neither slot registers nor sampler states
ParseTextureDecl(tbl, toks) ==
    Then(ParseIdent(toks), LAMBDA i :
    Then(Parse("ArrayDimensionList", <<tbl, i.rest, FALSE>>), LAMBDA d :
    Ok([type |-> "TextureDecl", ident |-> i.ast, arrayDims |-> d.ast,
        slotRegisters |-> <<>>], d.rest)))

ParseSamplerDecl(tbl, toks) ==
    Then(ParseIdent(toks), LAMBDA i :
    Then(Parse("ArrayDimensionList", <<tbl, i.rest, FALSE>>), LAMBDA d :
    Ok([type |-> "SamplerDecl", ident |-> i.ast, arrayDims |-> d.ast,
        slotRegisters |-> <<>>, samplerValues |-> <<>>], d.rest)))

RECURSIVE ParseTextureDeclList(_, _)
ParseTextureDeclList(tbl, toks) ==
    Then(ParseTextureDecl(tbl, toks), LAMBDA t :
    Then(IF Is(t.rest, "Comma") THEN ParseTextureDeclList(tbl, AcceptIt(t.rest))
         ELSE Ok(<<>>, t.rest), LAMBDA r :
    Ok(<<t.ast>> \o r.ast, r.rest)))

RECURSIVE ParseSamplerDeclList(_, _)
ParseSamplerDeclList(tbl, toks) ==
    Then(ParseSamplerDecl(tbl, toks), LAMBDA t :
    Then(IF Is(t.rest, "Comma") THEN ParseSamplerDeclList(tbl, AcceptIt(t.rest))
         ELSE Ok(<<>>, t.rest), LAMBDA r :
    Ok(<<t.ast>> \o r.ast, r.rest)))

\* ParseTextureDeclStmnt, for a texture type without template arguments
ParseTextureDeclStmnt(tbl, toks) ==
    Then(Accept(toks, "Texture"), LAMBDA b :
    Then(ParseTextureDeclList(tbl, b.rest), LAMBDA l :
    Then(Semi(l.rest), LAMBDA e :
    Ok([type |-> "TextureDeclStmnt", textureType |-> b.ast.spell,
        textureDecls |-> l.ast], e.rest))))

ParseSamplerType(toks) ==
    IF Is(toks, "Sampler") \/ Is(toks, "SamplerState")
    THEN Ok(Tkn(toks).spell, AcceptIt(toks)) ELSE Fail

ParseSamplerDeclStmnt(tbl, toks) ==
    Then(ParseSamplerType(toks), LAMBDA t :
    Then(ParseSamplerDeclList(tbl, t.rest), LAMBDA l :
    Then(Semi(l.rest), LAMBDA e :
    Ok([type |-> "SamplerDeclStmnt", samplerType |-> t.ast,
        samplerDecls |-> l.ast], e.rest))))

\* ParseParameter: the modifiers in front of the parameter's type
RECURSIVE ParseParameterModifiers(_, _)
ParseParameterModifiers(toks, inputModifier) ==
    IF Is(toks, "InputModifier")
    THEN ParseParameterModifiers(AcceptIt(toks), Tkn(toks).spell)
    ELSE IF Is(toks, "TypeModifier") \/ Is(toks, "StorageClass")
    THEN Then(ParseParameterModifiers(AcceptIt(toks), inputModifier), LAMBDA r :
         Ok([inputModifier |-> r.ast.inputModifier,
             modifiers |-> <<Tkn(toks).spell>> \o r.ast.modifiers], r.rest))
    ELSE Ok([inputModifier |-> inputModifier, modifiers |-> <<>>], toks)

ParseParameter(tbl, toks) ==
    Then(ParseParameterModifiers(toks, ""), LAMBDA q :
    Then(Parse("VarType", <<tbl, q.rest>>), LAMBDA t :
    Then(Parse("VarDecl", <<t.tbl, t.rest, nullptr>>), LAMBDA v :
    OkT([type |-> "VarDeclStmnt", modifiers |-> q.ast.modifiers,
         inputModifier |-> q.ast.inputModifier, varType |-> t.ast,
         varDecls |-> <<v.ast>>], v.rest, t.tbl))))

\* the loop of ParseParameterList
ParseParameters(tbl, toks) ==
    Then(Parse("Parameter", <<tbl, toks>>), LAMBDA a :
    Then(IF Is(a.rest, "Comma") THEN Parse("Parameters", <<a.tbl, AcceptIt(a.rest)>>)
         ELSE OkT(<<>>, a.rest, a.tbl), LAMBDA r :
    OkT(<<a.ast>> \o r.ast, r.rest, r.tbl)))

ParseParameterList(tbl, toks) ==
    Then(Accept(toks, "LBracket"), LAMBDA a :
    Then(IF Is(a.rest, "RBracket") THEN OkT(<<>>, a.rest, tbl)
         ELSE Parse("Parameters", <<tbl, a.rest>>), LAMBDA l :
    Then(Accept(l.rest, "RBracket"), LAMBDA c :
    OkT(l.ast, c.rest, l.tbl))))

\* ParseFunctionDecl up to its body: codeBlock tells that ParseCodeBlock follows
OkF(ast, rest, tbl) ==
    [ok |-> TRUE, ast |-> ast, tbl |-> tbl, codeBlock |-> ~Is(rest, "Semicolon"),
     rest |-> IF Is(rest, "Semicolon") THEN AcceptIt(rest) ELSE rest]

ParseFunctionDecl(tbl, toks, returnType, identTkn) ==
    Then(IF returnType # nullptr THEN OkT(returnType, toks, tbl)
         ELSE Parse("VarType", <<tbl, IF Is(toks, "Inline") THEN AcceptIt(toks)
                                      ELSE toks>>), LAMBDA t :
    Then(IF identTkn # nullptr THEN Ok(identTkn.spell, t.rest)
         ELSE ParseIdent(t.rest), LAMBDA i :
    Then(Parse("ParameterList", <<t.tbl, i.rest>>), LAMBDA p :
    Then(ParseVarDeclSemantic(p.rest), LAMBDA m :
    OkF([type |-> "FunctionDecl", returnType |-> t.ast, ident |-> i.ast,
         parameters |-> p.ast, semantic |-> m.ast], m.rest, p.tbl)))))

\* ParseStructDeclOrVarDeclOrFunctionDeclStmnt behind the identifier
ParseVarDeclOrFunctionDecl(varType, identTkn) ==
    IF Is(identTkn.rest, "LBracket")
    THEN Parse("FunctionDecl", <<varType.tbl, identTkn.rest, varType.ast,
                                 identTkn.ast>>)
    ELSE Then(Parse("VarDeclList", <<varType.tbl, identTkn.rest, identTkn.ast>>),
              LAMBDA l :
         Then(Semi(l.rest), LAMBDA e :
         [ok |-> TRUE, codeBlock |-> FALSE, rest |-> e.rest, tbl |-> varType.tbl,
          ast |-> [type |-> "VarDeclStmnt", modifiers |-> <<>>,
                   varType |-> varType.ast, varDecls |-> l.ast]]))

ParseStructDeclOrVarDeclOrFunctionDeclStmnt(tbl, toks) ==
    Then(Parse("VarType", <<tbl, toks>>), LAMBDA varType :
    IF varType.ast.structDecl # nullptr /\ Is(varType.rest, "Semicolon")
    THEN Then(Semi(varType.rest), LAMBDA e :
         [ok |-> TRUE, codeBlock |-> FALSE, rest |-> e.rest, tbl |-> varType.tbl,
          ast |-> [type |-> "StructDeclStmnt",
                   structDecl |-> varType.ast.structDecl]])
    ELSE Then(Accept(varType.rest, "Ident"), LAMBDA identTkn :
         ParseVarDeclOrFunctionDecl(varType, identTkn)))

(***************************************************************************)
(* HLSLParser: statements                                                  *)
(***************************************************************************)
ParseNullStmnt(toks) ==
    Then(Semi(toks), LAMBDA e : Ok([type |-> "NullStmnt"], e.rest))

ParseExprStmnt(tbl, toks, varIdent) ==
    Then(IF varIdent # nullptr
         THEN Parse("Expr", <<tbl, toks, TRUE,
                              [type |-> "VarAccessExpr", varIdent |-> varIdent,
                               assignOp |-> "Undefined", assignExpr |-> nullptr]>>)
         ELSE Parse("Expr", <<tbl, toks, TRUE, nullptr>>), LAMBDA x :
    Then(Semi(x.rest), LAMBDA e :
    Ok([type |-> "ExprStmnt", expr |-> x.ast], e.rest)))

ParseAliasTypeDenoter(toks, ident) ==
    Then(IF ident = "" THEN ParseIdent(toks) ELSE Ok(ident, toks), LAMBDA i :
    Ok([type |-> "AliasTypeDenoter", ident |-> i.ast], i.rest))

\* ParseVarDeclOrAssignOrFunctionCallStmnt, function call as expression statement
ParseFunctionCallStmnt(tbl, varIdent) ==
    Then(Parse("FunctionCallExpr", <<tbl, varIdent.rest, varIdent.ast, nullptr>>),
         LAMBDA c :
    Then(Parse("Expr", <<tbl, c.rest, TRUE, c.ast>>), LAMBDA x :
    Then(Semi(x.rest), LAMBDA e :
    Ok([type |-> "ExprStmnt", expr |-> x.ast], e.rest))))

\* ParseVarDeclOrAssignOrFunctionCallStmnt, assignment statement
ParseAssignStmnt(tbl, varIdent) ==
    Then(Accept(varIdent.rest, "AssignOp"), LAMBDA op :
    Then(Parse("Expr", <<tbl, op.rest, TRUE, nullptr>>), LAMBDA x :
    Then(Semi(x.rest), LAMBDA e :
    Ok([type |-> "ExprStmnt",
        expr |-> [type |-> "VarAccessExpr", varIdent |-> varIdent.ast,
                  assignOp |-> StringToAssignOp(op.ast.spell),
                  assignExpr |-> x.ast]], e.rest))))

\* ParseVarDeclOrAssignOrFunctionCallStmnt, declaration with an alias type
ParseAliasVarDeclStmnt(tbl, varIdent) ==
    Then(ParseAliasTypeDenoter(varIdent.rest, varIdent.ast.ident), LAMBDA alias :
    Then(Parse("VarDeclList", <<tbl, alias.rest, nullptr>>), LAMBDA l :
    Then(Semi(l.rest), LAMBDA e :
    Ok([type |-> "VarDeclStmnt", modifiers |-> <<>>,
        varType |-> [type |-> "VarType", structDecl |-> nullptr,
                     typeDenoter |->
                         IF varIdent.ast.arrayIndices # <<>>
                         THEN [type |-> "ArrayTypeDenoter",
                               baseTypeDenoter |-> alias.ast,
                               arrayDims |-> varIdent.ast.arrayIndices]
                         ELSE alias.ast],
        varDecls |-> l.ast], e.rest))))

\* a ParseVarDeclOrAssignOrFunctionCallStmnt that takes a dotted identifier
\* as a type as well
ParseVarDeclOrAssignOrFunctionCallStmnt_DottedType(tbl, toks) ==
    Then(Parse("VarIdent", <<tbl, toks>>), LAMBDA varIdent :
    IF Is(varIdent.rest, "LBracket") THEN ParseFunctionCallStmnt(tbl, varIdent)
    ELSE IF Is(varIdent.rest, "AssignOp") THEN ParseAssignStmnt(tbl, varIdent)
    ELSE IF IsSpell(varIdent.rest, "UnaryOp", "++")
            \/ IsSpell(varIdent.rest, "UnaryOp", "--")
    THEN Parse("ExprStmnt", <<tbl, varIdent.rest, varIdent.ast>>)
    ELSE ParseAliasVarDeclStmnt(tbl, varIdent))

ParseVarDeclOrAssignOrFunctionCallStmnt(tbl, toks) ==
    Then(Parse("VarIdent", <<tbl, toks>>), LAMBDA varIdent :
    IF Is(varIdent.rest, "LBracket") THEN ParseFunctionCallStmnt(tbl, varIdent)
    ELSE IF Is(varIdent.rest, "AssignOp") THEN ParseAssignStmnt(tbl, varIdent)
    ELSE IF IsSpell(varIdent.rest, "UnaryOp", "++")
            \/ IsSpell(varIdent.rest, "UnaryOp", "--")
    THEN Parse("ExprStmnt", <<tbl, varIdent.rest, varIdent.ast>>)
    ELSE IF varIdent.ast.next = nullptr THEN ParseAliasVarDeclStmnt(tbl, varIdent)
    ELSE Fail)

Parse(rule, a) ==
    CASE rule = "ArrayDimension" ->
             ParseArrayDimension(a[1], a[2], a[3])
      [] rule = "ArrayDimensionList" ->
             ParseArrayDimensionList(a[1], a[2], a[3])
      [] rule = "VarIdent" ->
             ParseVarIdent(a[1], a[2])
      [] rule = "TypeDenoterPrimary" ->
             ParseTypeDenoterPrimary(a[1], a[2])
      [] rule = "TypeDenoter" ->
             ParseTypeDenoter(a[1], a[2], a[3])
      [] rule = "ExprsNext" ->
             ParseExprsNext(a[1], a[2], a[3], a[4])
      [] rule = "Exprs" ->
             ParseExprs(a[1], a[2], a[3], a[4])
      [] rule = "ExprList" ->
             ParseExprList(a[1], a[2], a[3], a[4])
      [] rule = "ArgumentList" ->
             ParseArgumentList(a[1], a[2])
      [] rule = "FunctionCall" ->
             ParseFunctionCall(a[1], a[2], a[3], a[4])
      [] rule = "SuffixExpr" ->
             ParseSuffixExpr(a[1], a[2], a[3])
      [] rule = "ArrayAccessExpr" ->
             ParseArrayAccessExpr(a[1], a[2], a[3])
      [] rule = "FunctionCallExpr" ->
             ParseFunctionCallExpr(a[1], a[2], a[3], a[4])
      [] rule = "VarAccessExpr" ->
             ParseVarAccessExpr(a[1], a[2], a[3])
      [] rule = "VarAccessOrFunctionCallExpr" ->
             ParseVarAccessOrFunctionCallExpr(a[1], a[2])
      [] rule = "InitializerExpr" ->
             ParseInitializerExpr(a[1], a[2])
      [] rule = "LiteralOrSuffixExpr" ->
             ParseLiteralOrSuffixExpr(a[1], a[2])
      [] rule = "TypeNameOrFunctionCallExpr" ->
             ParseTypeNameOrFunctionCallExpr(a[1], a[2])
      [] rule = "UnaryExpr" ->
             ParseUnaryExpr(a[1], a[2])
      [] rule = "CastOrBracketTail" ->
             ParseCastOrBracketTail(a[1], a[2], a[3], a[4])
      [] rule = "BracketOrCastExpr" ->
             ParseBracketOrCastExpr(a[1], a[2])
      [] rule = "PrimaryExpr" ->
             ParsePrimaryExpr(a[1], a[2])
      [] rule = "BinaryRest" ->
             ParseBinaryRest(a[1], a[2], a[3])
      [] rule = "GenericExpr" ->
             ParseGenericExpr(a[1], a[2])
      [] rule = "Expr" ->
             ParseExpr(a[1], a[2], a[3], a[4])
      [] rule = "Initializer" ->
             ParseInitializer(a[1], a[2])
      [] rule = "VarDecl" ->
             ParseVarDecl(a[1], a[2], a[3])
      [] rule = "VarDeclList" ->
             ParseVarDeclList(a[1], a[2], a[3])
      [] rule = "StructDeclName" ->
             ParseStructDeclName(a[1], a[2], a[3])
      [] rule = "StructDecl" ->
             ParseStructDecl(a[1], a[2], a[3], a[4])
      [] rule = "VarDeclStmntMembers" ->
             ParseVarDeclStmntMembers(a[1], a[2])
      [] rule = "VarDeclStmntList" ->
             ParseVarDeclStmntList(a[1], a[2])
      [] rule = "VarDeclStmntType" ->
             ParseVarDeclStmntType(a[1], a[2])
      [] rule = "VarDeclStmnt" ->
             ParseVarDeclStmnt(a[1], a[2])
      [] rule = "TypeDenoterWithStructDeclOpt" ->
             ParseTypeDenoterWithStructDeclOpt(a[1], a[2])
      [] rule = "VarType" ->
             ParseVarType(a[1], a[2])
      [] rule = "AliasDecl" ->
             ParseAliasDecl(a[1], a[2], a[3])
      [] rule = "AliasDeclList" ->
             ParseAliasDeclList(a[1], a[2], a[3])
      [] rule = "AliasDeclStmnt" ->
             ParseAliasDeclStmnt(a[1], a[2])
      [] rule = "StructDeclOrVarDeclStmnt" ->
             ParseStructDeclOrVarDeclStmnt(a[1], a[2])
      [] rule = "Parameter" ->
             ParseParameter(a[1], a[2])
      [] rule = "Parameters" ->
             ParseParameters(a[1], a[2])
      [] rule = "ParameterList" ->
             ParseParameterList(a[1], a[2])
      [] rule = "FunctionDecl" ->
             ParseFunctionDecl(a[1], a[2], a[3], a[4])
      [] rule = "StructDeclOrVarDeclOrFunctionDeclStmnt" ->
             ParseStructDeclOrVarDeclOrFunctionDeclStmnt(a[1], a[2])
      [] rule = "ExprStmnt" ->
             ParseExprStmnt(a[1], a[2], a[3])
      [] rule = "VarDeclOrAssignOrFunctionCallStmnt" ->
             ParseVarDeclOrAssignOrFunctionCallStmnt(a[1], a[2])

(***************************************************************************)
(* The type names a statement declares: its typedef names and the tags of  *)
(* the structs declared in it                                              *)
(***************************************************************************)
RECURSIVE StructTypeNames(_), StmntTypeNames(_), StmntsTypeNames(_)
StmntsTypeNames(stmnts) ==
    IF stmnts = <<>> THEN {}
    ELSE StmntTypeNames(Head(stmnts)) \cup StmntsTypeNames(Tail(stmnts))

StructTypeNames(structDecl) ==
    IF structDecl = nullptr THEN {}
    ELSE ({structDecl.ident} \ {""}) \cup StmntsTypeNames(structDecl.members)

StmntTypeNames(ast) ==
    IF ast.type = "AliasDeclStmnt"
    THEN {ast.aliasDecls[i].ident : i \in 1..Len(ast.aliasDecls)}
             \cup StructTypeNames(ast.structDecl)
    ELSE IF ast.type = "StructDeclStmnt" THEN StructTypeNames(ast.structDecl)
    ELSE IF ast.type = "VarDeclStmnt" THEN StructTypeNames(ast.varType.structDecl)
    ELSE IF ast.type = "FunctionDecl"
    THEN StructTypeNames(ast.returnType.structDecl)
             \cup StmntsTypeNames(ast.parameters)
    ELSE {}

\* the variables, parameters, functions, textures and samplers a statement
\* declares
DeclIdents(decls) == {decls[k].ident : k \in DOMAIN decls}

StmntValueNames(ast) ==
    IF ast.type = "VarDeclStmnt" THEN DeclIdents(ast.varDecls)
    ELSE IF ast.type = "TextureDeclStmnt" THEN DeclIdents(ast.textureDecls)
    ELSE IF ast.type = "SamplerDeclStmnt" THEN DeclIdents(ast.samplerDecls)
    ELSE IF ast.type = "FunctionDecl"
    THEN {ast.ident} \cup UNION {DeclIdents(ast.parameters[k].varDecls) :
                                     k \in DOMAIN ast.parameters}
    ELSE {}

(***************************************************************************)
(* HLSLParser::ParseSource as a state machine: one step per statement of   *)
(* ParseProgram's and ParseStmntList's loops                               *)
(***************************************************************************)
Top == frames[Len(frames)]

InProgram   == pc = "program" /\ Top = "Program"
InCodeBlock == pc = "program" /\ Top # "Program"

\* a Report was thrown: ParseSource submits it and returns null
ThrowReport(msg) ==
    /\ pc' = "failed"
    /\ hasErrors' = TRUE
    /\ parseResult' = "nullptr"
    /\ preports' = Append(preports, Report("Error", msg))
    /\ UNCHANGED braceTknStack
    /\ stmnt' = nullptr
    /\ stmntTokens' = tokens
    /\ stmntTable' = typeNameSymbolTable_
    /\ UNCHANGED <<tokens, typeNameSymbolTable_, frames, declared, everDeclared, valuesDeclared>>

Throw == ThrowReport("syntax error")

\* the type-name table behind a parse function: only declarations change it
TableBehind(r) == IF "tbl" \in DOMAIN r THEN r.tbl ELSE typeNameSymbolTable_

\* a statement was parsed and pushed to the statement list
Parsed(r) ==
    /\ stmnt' = r.ast
    /\ stmntTokens' = tokens
    /\ stmntTable' = typeNameSymbolTable_
    /\ tokens' = r.rest
    /\ typeNameSymbolTable_' = TableBehind(r)
    /\ declared' = [declared EXCEPT ![Len(declared)] = @ \cup StmntTypeNames(r.ast)]
    /\ everDeclared' = everDeclared \cup StmntTypeNames(r.ast)
    /\ valuesDeclared' = valuesDeclared \cup StmntValueNames(r.ast)
    /\ UNCHANGED <<pc, frames, hasErrors, parseResult, preports, braceTknStack>>

\* ParseCodeBlock up to its statement list, after the statement head r
CodeBlockOpened(r, a, frame) ==
    IF ~a.ok THEN Throw
    ELSE /\ stmnt' = r.ast
         /\ stmntTokens' = tokens
         /\ stmntTable' = typeNameSymbolTable_
         /\ tokens' = a.rest
         /\ typeNameSymbolTable_' = OpenScope(TableBehind(r))
         /\ frames' = Append(frames, frame)
         /\ declared' = Append([declared EXCEPT ![Len(declared)] =
                                    @ \cup StmntTypeNames(r.ast)], {})
         /\ everDeclared' = everDeclared \cup StmntTypeNames(r.ast)
         /\ valuesDeclared' = valuesDeclared \cup StmntValueNames(r.ast)
         /\ UNCHANGED <<pc, hasErrors, parseResult, preports, braceTknStack>>

\* the statement r returned to ParseProgram's or ParseStmntList's loop, or the
\* Report thrown to ParseSource; a function declaration goes on with its body
Statement(r) ==
    IF ~r.ok THEN Throw
    ELSE IF "codeBlock" \in DOMAIN r /\ r.codeBlock
    THEN CodeBlockOpened(r, Accept(r.rest, "LCurly"), "FunctionDecl")
    ELSE Parsed(r)

\* ParseSource behind ParseProgram
\* (first returning null whatever was reported)
ParseSourceReturn_Null(hasErros) == "nullptr"
ParseSourceReturn(hasErros) == IF hasErros THEN "nullptr" ELSE "program"

ParseProgramBegin ==
    /\ pc = "start"
    /\ pc' = "program"
    /\ typeNameSymbolTable_' =
           GeneratePreDefinedTypeAliases(OpenScope(typeNameSymbolTable_))
    /\ frames' = <<"Program">>
    /\ declared' = <<{}>>
    /\ UNCHANGED <<tokens, stmnt, stmntTokens, stmntTable, everDeclared, valuesDeclared, hasErrors,
                   parseResult, preports, braceTknStack, nonParserVars>>

\* ParseProgram: null statements between the global statements
ParseProgramNullStmnt ==
    /\ InProgram
    /\ Is(tokens, "Semicolon")
    /\ tokens' = AcceptIt(tokens)
    /\ UNCHANGED <<pc, typeNameSymbolTable_, frames, stmnt, stmntTokens, stmntTable,
                   declared, everDeclared, valuesDeclared, hasErrors, parseResult, preports,
                   braceTknStack, nonParserVars>>

\* ParseAndIgnoreTechnique accepted a token: the scanner is behind it, or a
\* Report was thrown while the directives behind it were processed
TechniqueAccepted(rest, reports, stack, position) ==
    IF Tkn(rest) = tkThrown THEN Throw
    ELSE /\ tokens' = rest
         /\ preports' = reports
         /\ braceTknStack' = stack
         /\ pc' = position
         /\ UNCHANGED <<typeNameSymbolTable_, frames, stmnt, stmntTokens, stmntTable,
                        declared, everDeclared, valuesDeclared, hasErrors, parseResult>>

\* ParseProgram: a technique between the global statements.
\* ParseAndIgnoreTechnique up to its first loop
ParseAndIgnoreTechnique ==
    /\ InProgram
    /\ Is(tokens, "Technique")
    /\ TechniqueAccepted(AcceptIt(tokens),
                         Append(preports, Report("Warning", "techniques are ignored")),
                         <<>>, "technique")
    /\ UNCHANGED nonParserVars

\* the condition of  while (!Is(Tokens::LCurly)):  it holds
TechniqueIgnoreToken ==
    /\ pc = "technique"
    /\ ~Is(tokens, "LCurly")
    /\ pc' = "techniqueAcceptIt"
    /\ UNCHANGED <<tokens, typeNameSymbolTable_, frames, stmnt, stmntTokens,
                   stmntTable, declared, everDeclared, valuesDeclared, hasErrors, parseResult,
                   preports, braceTknStack, nonParserVars>>

\* the body of that loop: behind the end of the stream the scanner delivers
\* EndOfStream again
TechniqueAcceptIt ==
    /\ pc = "techniqueAcceptIt"
    /\ TechniqueAccepted(AcceptIt(tokens), preports, braceTknStack, "technique")
    /\ UNCHANGED nonParserVars

\* the first opening brace
TechniqueFirstBrace ==
    /\ pc = "technique"
    /\ Is(tokens, "LCurly")
    /\ TechniqueAccepted(AcceptIt(tokens), preports, <<Tkn(tokens)>>,
                         "techniqueBraces")
    /\ UNCHANGED nonParserVars

\* one token of the second loop: the braces are counted
TechniqueCountBraces ==
    /\ pc = "techniqueBraces"
    /\ braceTknStack # <<>>
    /\ IF Is(tokens, "LCurly")
       THEN TechniqueAccepted(AcceptIt(tokens), preports,
                              Append(braceTknStack, Tkn(tokens)), "techniqueBraces")
       ELSE IF Is(tokens, "RCurly")
       THEN TechniqueAccepted(AcceptIt(tokens), preports,
                              SubSeq(braceTknStack, 1, Len(braceTknStack) - 1),
                              "techniqueBraces")
       ELSE IF Is(tokens, "EndOfStream")
       THEN ThrowReport("missing closing brace '}' for open code block")
       ELSE TechniqueAccepted(AcceptIt(tokens), preports, braceTknStack,
                              "techniqueBraces")
    /\ UNCHANGED nonParserVars

\* the braces balance: ParseAndIgnoreTechnique returns to ParseProgram
TechniqueEnd ==
    /\ pc = "techniqueBraces"
    /\ braceTknStack = <<>>
    /\ pc' = "program"
    /\ UNCHANGED <<tokens, typeNameSymbolTable_, frames, stmnt, stmntTokens,
                   stmntTable, declared, everDeclared, valuesDeclared, hasErrors, parseResult,
                   preports, braceTknStack, nonParserVars>>

ParseProgramEnd ==
    /\ InProgram
    /\ Is(tokens, "EndOfStream")
    /\ typeNameSymbolTable_' = CloseScope(typeNameSymbolTable_)
    /\ frames' = <<>>
    /\ declared' = <<>>
    /\ pc' = "done"
    /\ parseResult' = ParseSourceReturn(hasErrors)
    /\ UNCHANGED <<tokens, stmnt, stmntTokens, stmntTable, everDeclared, valuesDeclared, hasErrors,
                   preports, braceTknStack, nonParserVars>>

\* ParseGlobalStmnt and ParseStmnt, case Typedef
AliasDeclStmnt ==
    /\ pc = "program"
    /\ Is(tokens, "Typedef")
    /\ Statement(Parse("AliasDeclStmnt", <<typeNameSymbolTable_, tokens>>))
    /\ UNCHANGED nonParserVars

\* ParseGlobalStmnt, cases Void and Inline
GlobalFunctionDecl ==
    /\ InProgram
    /\ Tkn(tokens).type \in {"Void", "Inline"}
    /\ Statement(Parse("FunctionDecl",
                       <<typeNameSymbolTable_, tokens, nullptr, nullptr>>))
    /\ UNCHANGED nonParserVars

\* ParseGlobalStmnt, default case
GlobalStructDeclOrVarDeclOrFunctionDeclStmnt ==
    /\ InProgram
    /\ Tkn(tokens).type \notin {"Semicolon", "Technique", "EndOfStream", "Typedef",
                                "Void", "Inline", "TypeModifier", "StorageClass",
                                "Sampler", "SamplerState", "Texture"}
    /\ Statement(Parse("StructDeclOrVarDeclOrFunctionDeclStmnt",
                       <<typeNameSymbolTable_, tokens>>))
    /\ UNCHANGED nonParserVars

\* ParseCodeBlock behind its statement list
CodeBlockClose ==
    /\ InCodeBlock
    /\ Is(tokens, "RCurly")
    /\ LET tbl == CloseScope(typeNameSymbolTable_)
           a   == Accept(tokens, "RCurly")
       IN  /\ typeNameSymbolTable_' = tbl
           /\ tokens' = a.rest
           /\ frames' = SubSeq(frames, 1, Len(frames) - 1)
           /\ declared' = SubSeq(declared, 1, Len(declared) - 1)
    /\ UNCHANGED <<pc, stmnt, stmntTokens, stmntTable, everDeclared, valuesDeclared, hasErrors,
                   parseResult, preports, braceTknStack, nonParserVars>>

\* ParseStmnt, case Semicolon
NullStmnt ==
    /\ InCodeBlock
    /\ Is(tokens, "Semicolon")
    /\ Statement(ParseNullStmnt(tokens))
    /\ UNCHANGED nonParserVars

\* ParseStmnt, case LCurly
CodeBlockStmnt ==
    /\ InCodeBlock
    /\ Is(tokens, "LCurly")
    /\ CodeBlockOpened(Ok([type |-> "CodeBlockStmnt"], tokens),
                       Accept(tokens, "LCurly"), "CodeBlockStmnt")
    /\ UNCHANGED nonParserVars

\* ParseStmnt, case Ident
VarDeclOrAssignOrFunctionCallStmnt ==
    /\ InCodeBlock
    /\ Is(tokens, "Ident")
    /\ Statement(Parse("VarDeclOrAssignOrFunctionCallStmnt",
                       <<typeNameSymbolTable_, tokens>>))
    /\ UNCHANGED nonParserVars

\* ParseStmnt, case Struct
StructDeclOrVarDeclStmnt ==
    /\ InCodeBlock
    /\ Is(tokens, "Struct")
    /\ Statement(Parse("StructDeclOrVarDeclStmnt", <<typeNameSymbolTable_, tokens>>))
    /\ UNCHANGED nonParserVars

\* ParseGlobalStmnt and ParseStmnt, cases TypeModifier and StorageClass, and
\* ParseStmnt on a data type
VarDeclStmnt ==
    /\ pc = "program"
    /\ IF Tkn(tokens).type \in {"TypeModifier", "StorageClass"} THEN TRUE
       ELSE /\ InCodeBlock
            /\ IsDataType(tokens)
            /\ Tkn(tokens).type \notin {"Sampler", "SamplerState"}
    /\ Statement(Parse("VarDeclStmnt", <<typeNameSymbolTable_, tokens>>))
    /\ UNCHANGED nonParserVars

\* ParseGlobalStmnt, case Texture
GlobalTextureDeclStmnt ==
    /\ InProgram
    /\ Is(tokens, "Texture")
    /\ Statement(ParseTextureDeclStmnt(typeNameSymbolTable_, tokens))
    /\ UNCHANGED nonParserVars

\* ParseGlobalStmnt and ParseStmnt, cases Sampler and SamplerState
SamplerDeclStmnt ==
    /\ pc = "program"
    /\ Is(tokens, "Sampler") \/ Is(tokens, "SamplerState")
    /\ Statement(ParseSamplerDeclStmnt(typeNameSymbolTable_, tokens))
    /\ UNCHANGED nonParserVars

\* ParseStmnt, statement of arbitrary expression
ExprStmnt ==
    /\ InCodeBlock
    /\ Tkn(tokens).type \notin {"Semicolon", "LCurly", "RCurly", "Ident", "Struct",
                                "Typedef", "TypeModifier", "StorageClass"}
    /\ ~IsDataType(tokens)
    /\ Statement(Parse("ExprStmnt", <<typeNameSymbolTable_, tokens, nullptr>>))
    /\ UNCHANGED nonParserVars

NextParser ==
    \/ ParseProgramBegin
    \/ ParseProgramNullStmnt
    \/ ParseAndIgnoreTechnique
    \/ TechniqueIgnoreToken
    \/ TechniqueAcceptIt
    \/ TechniqueFirstBrace
    \/ TechniqueCountBraces
    \/ TechniqueEnd
    \/ ParseProgramEnd
    \/ AliasDeclStmnt
    \/ GlobalFunctionDecl
    \/ GlobalStructDeclOrVarDeclOrFunctionDeclStmnt
    \/ CodeBlockClose
    \/ NullStmnt
    \/ CodeBlockStmnt
    \/ VarDeclOrAssignOrFunctionCallStmnt
    \/ StructDeclOrVarDeclStmnt
    \/ VarDeclStmnt
    \/ GlobalTextureDeclStmnt
    \/ SamplerDeclStmnt
    \/ ExprStmnt

(***************************************************************************)
(* The programs parsed: token streams as the scanner delivers them         *)
(***************************************************************************)
RECURSIVE Flatten(_)
Flatten(ss) == IF ss = <<>> THEN <<>> ELSE Head(ss) \o Flatten(Tail(ss))

RECURSIVE Rep(_, _)
Rep(s, n) == IF n = 0 THEN <<>> ELSE s \o Rep(s, n - 1)

SeqsUpTo(S, n) == UNION {[1..k -> S] : k \in 0..n}

itTypedef(x) == <<tkTypedef, tkInt, Id(x), tkSemicolon>>
itStruct(x)  == <<tkStruct, Id(x), tkLCurly, tkInt, Id("a"), tkSemicolon, tkRCurly,
                  tkSemicolon>>
itVar(x)     == <<tkInt, Id(x), tkSemicolon>>
itOpen       == <<tkLCurly>>
itClose      == <<tkRCurly>>
funcVoid     == <<tkVoid, Id("f"), tkLBracket, tkRBracket, tkLCurly>>
funcInt      == <<tkInt, Id("f"), tkLBracket, tkInt, Id("p"), tkRBracket, tkLCurly>>

GlobalDecls == {<<>>, itTypedef("X"), itStruct("X")}
LocalItems  == {itTypedef("X"), itStruct("X"), itVar("X"), itOpen, itClose}

\* the nesting depth behind a sequence of items, -1 if a brace closes too much
RECURSIVE DepthOf(_, _)
DepthOf(items, d) ==
    IF d < 0 \/ items = <<>> THEN d
    ELSE DepthOf(Tail(items),
                 IF Head(items) = itOpen THEN d + 1
                 ELSE IF Head(items) = itClose THEN d - 1 ELSE d)

LocalPrefixes == {l \in SeqsUpTo(LocalItems, MaxLocalItems) : DepthOf(l, 0) >= 0}

castProbe == <<tkLBracket, Id("X"), tkRBracket, tkMinus, tkLBracket, tkOne,
               tkRBracket, tkSemicolon>>

\* declarations and blocks in front of a cast expression
ScopePrograms ==
    {g \o funcVoid \o Flatten(l) \o castProbe \o Rep(itClose, DepthOf(l, 0) + 1) :
        g \in GlobalDecls, l \in LocalPrefixes}

Idx == <<tkLParen, tkOne, tkRParen>>

VarIdentToks ==
    {<<Id(x)>> \o Rep(Idx, n) \o d :
        x \in {"X", "Y"}, n \in 0..MaxArrayIndices, d \in {<<>>, <<tkDot, Id("m")>>}}

InnerToks ==
    {v \o a : v \in VarIdentToks, a \in {<<>>, <<tkAssign, tkOne>>}}
        \cup {<<tkOne>>, <<tkInt>>, <<Id("X"), tkMinus, tkOne>>}

OperandToks ==
    {<<>>, <<tkOne>>, <<tkMinus, tkOne>>, <<tkMinus, tkLBracket, tkOne, tkRBracket>>,
     <<Id("Y")>>, Idx, <<tkDot, Id("m")>>}

BracketProbes ==
    {<<tkLBracket>> \o i \o <<tkRBracket>> \o o \o <<tkSemicolon>> :
        i \in InnerToks, o \in OperandToks}

ContinuationToks ==
    {<<>>, <<tkLBracket, tkRBracket>>, <<tkLBracket, tkOne, tkRBracket>>,
     <<tkAssign, tkOne>>, <<tkAddAssign, tkOne>>, <<tkInc>>, <<tkDec>>, <<tkNot>>,
     <<tkMinus, tkOne>>, <<Id("v")>>, <<Id("v"), tkAssign, tkOne>>,
     <<Id("v"), tkComma, Id("w")>>}

IdentProbes ==
    {v \o c \o <<tkSemicolon>> : v \in VarIdentToks, c \in ContinuationToks}

\* one statement in a function body, with and without the type name X
ExprPrograms ==
    {g \o funcVoid \o p \o itClose :
        g \in GlobalDecls, p \in BracketProbes \cup IdentProbes}

MiscPrograms ==
    {<<tkSemicolon>> \o itVar("g") \o funcInt \o <<tkSemicolon>>
         \o <<T("TypeModifier", "const")>> \o itVar("c")
         \o <<tkStruct, Id("X"), tkLCurly, tkInt, Id("a"), tkSemicolon, tkRCurly,
              Id("s"), tkSemicolon>>
         \o castProbe \o itClose,
     <<tkVoid, Id("h"), tkLBracket, tkRBracket, tkSemicolon>>
         \o <<tkTypedef, tkStruct, Id("S"), tkLCurly, tkStruct, Id("X"), tkLCurly,
              tkRCurly, Id("n"), tkSemicolon, tkRCurly, Id("Y"), tkComma, Id("Z"),
              tkSemicolon>>
         \o funcVoid \o castProbe \o itClose,
     funcVoid \o castProbe}

\* declarations of a name that is, or is not, a type name in front of a cast
\* expression: variables, textures, samplers, parameters and functions
itTexture(x) == <<T("Texture", "Texture2D"), Id(x), tkSemicolon>>

itSampler(x) == <<T("SamplerState", "SamplerState"), Id(x), tkSemicolon>>

funcNamed(x) == <<tkVoid, Id(x), tkLBracket, tkRBracket, tkLCurly>>

funcOf(x) == <<tkInt, Id("f"), tkLBracket, tkInt, Id(x), tkRBracket, tkLCurly>>

DeclPrograms ==
    {g \o d \o f \o Flatten(l) \o castProbe \o Rep(itClose, DepthOf(l, 0) + 1) :
        g \in GlobalDecls,
        d \in {<<>>, itTexture("X"), itSampler("X"), itVar("X")},
        f \in {funcVoid, funcNamed("X"), funcOf("X")},
        l \in {<<>>, <<itVar("X")>>, <<itSampler("X")>>, <<itOpen, itVar("X")>>,
               <<itOpen, itSampler("X")>>, <<itOpen, itVar("X"), itClose>>}}

tkTechnique == T("Technique", "technique")

\* what stands behind the keyword of a technique: name, passes and braces,
\* balanced or not, and the end of the stream wherever it may come
TechniqueItems == {<<Id("t")>>, <<tkLCurly>>, <<tkRCurly>>, <<tkSemicolon>>}

TechniqueToks == {Flatten(l) : l \in SeqsUpTo(TechniqueItems, MaxTechniqueTokens)}

TechniquePrograms ==
    {b \o <<tkTechnique>> \o t \o e :
        b \in {<<>>, <<tkSemicolon>>, itVar("g")},
        t \in TechniqueToks,
        e \in {<<>>, itVar("h"), <<tkRCurly>>}}

Programs ==
    ScopePrograms \cup ExprPrograms \cup MiscPrograms \cup TechniquePrograms
        \cup DeclPrograms

InitParser ==
    /\ pc = "start"
    /\ tokens \in Programs
    /\ typeNameSymbolTable_ = <<>>
    /\ frames = <<>>
    /\ stmnt = nullptr
    /\ stmntTokens = <<>>
    /\ stmntTable = <<>>
    /\ declared = <<>>
    /\ everDeclared = {}
    /\ valuesDeclared = {}
    /\ hasErrors = FALSE
    /\ parseResult = "none"
    /\ preports = <<>>
    /\ braceTknStack = <<>>
    /\ NonParserIdle

SpecParser == InitParser /\ [][NextParser]_vars

\* ParseAndIgnoreTechnique runs on: a step of its loops that can be taken is
\* taken
TechniqueStep ==
    \/ TechniqueIgnoreToken
    \/ TechniqueAcceptIt
    \/ TechniqueFirstBrace
    \/ TechniqueCountBraces
    \/ TechniqueEnd

SpecParserFair == SpecParser /\ WF_vars(TechniqueStep)

(***************************************************************************)
(* CompileShader and CompileShaderPrimary (Xsc.cpp).  The stages           *)
(* themselves (PreProcessor::Process, HLSLParser::ParseSource,             *)
(* HLSLAnalyzer::DecorateAST, Optimizer::Optimize,                         *)
(* GLSLGenerator::GenerateCode) are taken by their results: each of them   *)
(* may succeed or fail, except the optimizer, which returns nothing.       *)
(***************************************************************************)
OutputShaderVersions ==
    {"GLSL110", "GLSL120", "GLSL130", "GLSL140", "GLSL150", "GLSL330", "GLSL400",
     "GLSL410", "GLSL420", "GLSL430", "GLSL440", "GLSL450", "GLSL"}

Options ==
    [preprocessOnly : BOOLEAN, validateOnly : BOOLEAN, optimize : BOOLEAN,
     showAST : BOOLEAN, showTimes : BOOLEAN]

\* the arguments of CompileShader(inputDesc, outputDesc, log); a pointer is
\* "null" or names what it points to
CompileShaderCalls ==
    [input : {"null", "inputStream"}, output : {"null", "callerStream"},
     log : {"null", "log"}, statistics : {"null", "statistics"},
     shaderVersion : OutputShaderVersions, options : Options]

\* the SubmitError lambda of CompileShaderPrimary (its value is false)
SubmitError(log, reports, msg) ==
    IF log # "null" THEN Append(reports, Report("Error", msg)) ELSE reports

\* CompileShader: where outputDescCopy.sourceCode points before the primary
\* function is called
\* (without the redirection of validateOnly)
OutputDescCopySourceCode_NoRedirect(c) == c.output
OutputDescCopySourceCode(c) ==
    IF c.options.validateOnly THEN "dummyOutputStream" ELSE c.output

\* "Validate arguments": what() of the exception thrown, or "none"
ValidateArguments(inputSourceCode, outputSourceCode, shaderVersion) ==
    IF inputSourceCode = "null"
    THEN "invalid_argument: input stream must not be null"
    ELSE IF outputSourceCode = "null"
    THEN "invalid_argument: output stream must not be null"
    ELSE IF shaderVersion = "GLSL110"
    THEN "invalid_argument: output shader version 'GLSL 1.10' is not supported"
    ELSE IF shaderVersion = "GLSL120"
    THEN "invalid_argument: output shader version 'GLSL 1.20' is not supported"
    ELSE "none"

\* `if (!result) return SubmitError(...)`: where control goes after a stage
\* (without the return)
AfterStage_Continue(ok, next) == next
AfterStage(ok, next) == IF ok THEN next ELSE "return"

\* operator<< on the stream outputDescCopy.sourceCode points to: the new
\* content of `stream`
\* (without the write)
StreamWrite_Dropped(content, stream, target, text) == content
StreamWrite(content, stream, target, text) ==
    IF target = stream THEN Append(content, text) ELSE content

\* the five reports of "Show timings" (the durations are left out)
Timings ==
    <<Report("Info", "timing pre-processing:   "),
      Report("Info", "timing parsing:          "),
      Report("Info", "timing context analysis: "),
      Report("Info", "timing optimization:     "),
      Report("Info", "timing code generation:  ")>>

CompileShaderBegin ==
    /\ cpc = "start"
    /\ outputDescCopy' = OutputDescCopySourceCode(call)
    /\ cpc' = "validate"
    /\ UNCHANGED <<call, statistics, stagesRun, failedStage, callerOut,
                   dummyOutputStream, logReports, outcome, primaryResult>>
    /\ UNCHANGED nonCompileVars

\* the exception is not caught by CompileShader: it leaves both functions
CompileShaderPrimaryBegin ==
    /\ cpc = "validate"
    /\ outcome' = ValidateArguments(call.input, outputDescCopy, call.shaderVersion)
    /\ cpc' = IF outcome' = "none" THEN "preprocess" ELSE "done"
    /\ UNCHANGED <<call, outputDescCopy, statistics, stagesRun, failedStage,
                   callerOut, dummyOutputStream, logReports, primaryResult>>
    /\ UNCHANGED nonCompileVars

PreProcess ==
    /\ cpc = "preprocess"
    /\ stagesRun' = Append(stagesRun, "preprocess")
    /\ statistics' = IF call.statistics # "null"
                     THEN Append(statistics, "macros") ELSE statistics
    /\ \E processedInput \in BOOLEAN :
        /\ failedStage' = IF processedInput THEN failedStage ELSE "preprocess"
        /\ logReports' = IF processedInput THEN logReports
                         ELSE SubmitError(call.log, logReports,
                                          "preprocessing input code failed")
        /\ primaryResult' = IF ~processedInput THEN "false"
                            ELSE IF call.options.preprocessOnly THEN "true"
                            ELSE primaryResult
        /\ callerOut' =
             IF processedInput /\ call.options.preprocessOnly
             THEN StreamWrite(callerOut, "callerStream", outputDescCopy, "processedInput")
             ELSE callerOut
        /\ dummyOutputStream' =
             IF processedInput /\ call.options.preprocessOnly
             THEN StreamWrite(dummyOutputStream, "dummyOutputStream", outputDescCopy,
                              "processedInput")
             ELSE dummyOutputStream
        /\ cpc' = AfterStage(processedInput,
                             IF call.options.preprocessOnly THEN "return" ELSE "parse")
    /\ UNCHANGED <<call, outputDescCopy, outcome>>
    /\ UNCHANGED nonCompileVars

ParseSource ==
    /\ cpc = "parse"
    /\ stagesRun' = Append(stagesRun, "parse")
    /\ \E program \in BOOLEAN :
        /\ failedStage' = IF program THEN failedStage ELSE "parse"
        /\ logReports' = IF program THEN logReports
                         ELSE SubmitError(call.log, logReports,
                                          "parsing input code failed")
        /\ primaryResult' = IF program THEN primaryResult ELSE "false"
        /\ cpc' = AfterStage(program, "analyze")
    /\ UNCHANGED <<call, outputDescCopy, statistics, callerOut, dummyOutputStream,
                   outcome>>
    /\ UNCHANGED nonCompileVars

PrintAST(c, reports) ==
    IF c.options.showAST /\ c.log # "null"
    THEN Append(reports, Report("Info", "AST")) ELSE reports

DecorateAST ==
    /\ cpc = "analyze"
    /\ stagesRun' = Append(stagesRun, "analyze")
    /\ \E analyzerResult \in BOOLEAN :
        /\ failedStage' = IF analyzerResult THEN failedStage ELSE "analyze"
        /\ logReports' = IF analyzerResult THEN PrintAST(call, logReports)
                         ELSE SubmitError(call.log, PrintAST(call, logReports),
                                          "analyzing input code failed")
        /\ primaryResult' = IF analyzerResult THEN primaryResult ELSE "false"
        /\ cpc' = AfterStage(analyzerResult, "optimize")
    /\ UNCHANGED <<call, outputDescCopy, statistics, callerOut, dummyOutputStream,
                   outcome>>
    /\ UNCHANGED nonCompileVars

Optimize ==
    /\ cpc = "optimize"
    /\ stagesRun' = IF call.options.optimize
                    THEN Append(stagesRun, "optimize") ELSE stagesRun
    /\ cpc' = "generate"
    /\ UNCHANGED <<call, outputDescCopy, statistics, failedStage, callerOut,
                   dummyOutputStream, logReports, outcome, primaryResult>>
    /\ UNCHANGED nonCompileVars

\* a generator that fails may have written a part of its output already
GenerateCode ==
    /\ cpc = "generate"
    /\ stagesRun' = Append(stagesRun, "generate")
    /\ \E generated \in BOOLEAN, text \in {"", "GLSL"} :
        /\ generated => text = "GLSL"
        /\ failedStage' = IF generated THEN failedStage ELSE "generate"
        /\ logReports' = IF generated THEN logReports
                         ELSE SubmitError(call.log, logReports,
                                          "generating output code failed")
        /\ primaryResult' = IF generated THEN "true" ELSE "false"
        /\ callerOut' =
             IF text # ""
             THEN StreamWrite(callerOut, "callerStream", outputDescCopy, text)
             ELSE callerOut
        /\ dummyOutputStream' =
             IF text # ""
             THEN StreamWrite(dummyOutputStream, "dummyOutputStream", outputDescCopy, text)
             ELSE dummyOutputStream
        /\ cpc' = AfterStage(generated, "return")
    /\ UNCHANGED <<call, outputDescCopy, statistics, outcome>>
    /\ UNCHANGED nonCompileVars

\* CompileShader after the primary function has returned
CompileShaderEnd ==
    /\ cpc = "return"
    /\ statistics' = IF call.statistics # "null"
                     THEN Append(statistics, "sorted") ELSE statistics
    /\ logReports' = IF call.options.showTimes /\ call.log # "null"
                     THEN logReports \o Timings ELSE logReports
    /\ outcome' = primaryResult
    /\ cpc' = "done"
    /\ UNCHANGED <<call, outputDescCopy, stagesRun, failedStage, callerOut,
                   dummyOutputStream, primaryResult>>
    /\ UNCHANGED nonCompileVars

NextCompile ==
    \/ CompileShaderBegin
    \/ CompileShaderPrimaryBegin
    \/ PreProcess
    \/ ParseSource
    \/ DecorateAST
    \/ Optimize
    \/ GenerateCode
    \/ CompileShaderEnd

InitCompile ==
    /\ cpc = "start"
    /\ call \in CompileShaderCalls
    /\ outputDescCopy = "null"
    /\ statistics = <<>>
    /\ stagesRun = <<>>
    /\ failedStage = "none"
    /\ callerOut = <<>>
    /\ dummyOutputStream = <<>>
    /\ logReports = <<>>
    /\ outcome = "none"
    /\ primaryResult = "none"
    /\ NonCompileIdle

SpecCompile == InitCompile /\ [][NextCompile]_vars

(***************************************************************************)
(* HLSLAnalyzer::AnalyzeFunctionCallIntrinsic.  The enumerator             *)
(* Intrinsic::Name_n is the pair of Name and n; an enumerator without a    *)
(* numeric suffix has no args field to compare and is written with n = 0.  *)
(***************************************************************************)
Intr(name, n) == [name |-> name, args |-> n]

Conversion(standardIntrinsic, numArgs, overloadedIntrinsic) ==
    [standardIntrinsic |-> standardIntrinsic, numArgs |-> numArgs,
     overloadedIntrinsic |-> overloadedIntrinsic]

intrinsicConversions ==
    <<Conversion(Intr("AsUInt", 1), 3, Intr("AsUInt", 3)),
      Conversion(Intr("Tex1D", 2), 4, Intr("Tex1D", 4)),
      Conversion(Intr("Tex2D", 2), 4, Intr("Tex2D", 4)),
      Conversion(Intr("Tex3D", 2), 4, Intr("Tex3D", 4)),
      Conversion(Intr("TexCube", 2), 4, Intr("TexCube", 4)),
      Conversion(Intr("Texture_Load", 1), 2, Intr("Texture_Load", 2)),
      Conversion(Intr("Texture_Load", 1), 3, Intr("Texture_Load", 3)),
      Conversion(Intr("Texture_Sample", 2), 3, Intr("Texture_Sample", 3)),
      Conversion(Intr("Texture_Sample", 2), 4, Intr("Texture_Sample", 4)),
      Conversion(Intr("Texture_Sample", 2), 5, Intr("Texture_Sample", 5)),
      Conversion(Intr("Texture_SampleBias", 3), 4, Intr("Texture_SampleBias", 4)),
      Conversion(Intr("Texture_SampleBias", 3), 5, Intr("Texture_SampleBias", 5)),
      Conversion(Intr("Texture_SampleBias", 3), 6, Intr("Texture_SampleBias", 6)),
      Conversion(Intr("Texture_SampleCmp", 3), 4, Intr("Texture_SampleCmp", 4)),
      Conversion(Intr("Texture_SampleCmp", 3), 5, Intr("Texture_SampleCmp", 5)),
      Conversion(Intr("Texture_SampleCmp", 3), 6, Intr("Texture_SampleCmp", 6)),
      Conversion(Intr("Texture_SampleGrad", 4), 5, Intr("Texture_SampleGrad", 5)),
      Conversion(Intr("Texture_SampleGrad", 4), 6, Intr("Texture_SampleGrad", 6)),
      Conversion(Intr("Texture_SampleGrad", 4), 7, Intr("Texture_SampleGrad", 7)),
      Conversion(Intr("Texture_SampleLevel", 3), 4, Intr("Texture_SampleLevel", 4)),
      Conversion(Intr("Texture_SampleLevel", 3), 5, Intr("Texture_SampleLevel", 5))>>

\* the loop over intrinsicConversions from row i on: the row that matches
\* first converts the intrinsic and ends the loop.
\* (without the comparison of the argument count)
RECURSIVE ConvertIntrinsic_AnyArgumentCount(_, _, _)
ConvertIntrinsic_AnyArgumentCount(intrinsic, numArguments, i) ==
    IF i > Len(intrinsicConversions) THEN intrinsic
    ELSE IF intrinsic = intrinsicConversions[i].standardIntrinsic
    THEN intrinsicConversions[i].overloadedIntrinsic
    ELSE ConvertIntrinsic_AnyArgumentCount(intrinsic, numArguments, i + 1)
RECURSIVE ConvertIntrinsic(_, _, _)
ConvertIntrinsic(intrinsic, numArguments, i) ==
    IF i > Len(intrinsicConversions) THEN intrinsic
    ELSE IF /\ intrinsic = intrinsicConversions[i].standardIntrinsic
            /\ numArguments = intrinsicConversions[i].numArgs
    THEN intrinsicConversions[i].overloadedIntrinsic
    ELSE ConvertIntrinsic(intrinsic, numArguments, i + 1)

\* the entries HLSLIntrinsicEntry of the intrinsic table that are analysed:
\* the standard intrinsics of the conversions, and clip, which has none
StandardIntrinsics ==
    {intrinsicConversions[i].standardIntrinsic : i \in DOMAIN intrinsicConversions}
        \cup {Intr("Clip", 0)}

ShaderModels == 3 .. 5

IntrinsicCalls ==
    [intrinsic : {Intr("Undefined", 0)}, arguments : 0 .. MaxArgs,
     intr : [intrinsic : StandardIntrinsics, minShaderModel : ShaderModels],
     shaderModel_ : ShaderModels]

AnalyzeFunctionCallIntrinsic ==
    /\ ipc = "start"
    /\ iwarnings' = IF icall.shaderModel_ < icall.intr.minShaderModel
                    THEN Append(iwarnings, "intrinsic requires shader model")
                    ELSE iwarnings
    /\ icall' = [icall EXCEPT
                   !.intrinsic = ConvertIntrinsic(icall.intr.intrinsic,
                                                  icall.arguments, 1)]
    /\ ipc' = "done"
    /\ UNCHANGED nonIntrinsicVars

NextIntrinsic == AnalyzeFunctionCallIntrinsic

InitIntrinsic ==
    /\ ipc = "start"
    /\ icall \in IntrinsicCalls
    /\ iwarnings = <<>>
    /\ NonIntrinsicIdle

SpecIntrinsic == InitIntrinsic /\ [][NextIntrinsic]_vars

(***************************************************************************)
(* HLSLAnalyzer: the visit of a program's global declarations and of one   *)
(* expression that refers to them.  A VarIdent is the list of its          *)
(* components, varIdent[i + 1] being varIdent[i]->next; a component keeps   *)
(* its symbolRef and how often the analyzer assigned it.  Arguments of a   *)
(* call are literals and only counted; type denoters are analysed          *)
(* elsewhere and are not decorated here.                                   *)
(***************************************************************************)
InputShaderVersions == {"HLSL3", "HLSL4", "HLSL5"}

GetShaderModel(v) ==
    CASE v = "HLSL3" -> 3
      [] v = "HLSL4" -> 4
      [] v = "HLSL5" -> 5
      [] OTHER       -> 1

ShaderTargets ==
    {"Undefined", "VertexShader", "TessellationControlShader",
     "TessellationEvaluationShader", "GeometryShader", "FragmentShader",
     "ComputeShader"}

IndexedSemantic(semantic, index) == [semantic |-> semantic, index |-> index]

NoSemantic == IndexedSemantic("Undefined", 0)

BaseTypeDenoter == [type |-> "Base", ident |-> ""]

StructTypeDenoter(ident) == [type |-> "Struct", ident |-> ident]

VarDecl(ident, typeDenoter, semantic) ==
    [type |-> "VarDecl", ident |-> ident, typeDenoter |-> typeDenoter,
     semantic |-> semantic, flags |-> {}]

TextureDecl(ident) == [type |-> "TextureDecl", ident |-> ident]

StructDecl(ident, members) ==
    [type |-> "StructDecl", ident |-> ident, members |-> members, flags |-> {},
     aliasName |-> ""]

VarIdent(ident) == [ident |-> ident, symbolRef |-> nullptr, assigned |-> 0]

VarAccessExpr(varIdent) == [type |-> "VarAccessExpr", varIdent |-> varIdent]

FunctionCall(varIdent, arguments) ==
    [type |-> "FunctionCall", varIdent |-> varIdent, arguments |-> arguments,
     intrinsic |-> Intr("Undefined", 0), funcDeclRef |-> nullptr]

\* HLSLIntrinsics(): the rows of the intrinsic table for clip and for the
\* texture-object methods Sample and Load
HLSLIntrinsics ==
    [name \in {"clip", "Sample", "Load"} |->
        CASE name = "clip"   -> [intrinsic |-> Intr("Clip", 0), minShaderModel |-> 1]
          [] name = "Sample" -> [intrinsic |-> Intr("Texture_Sample", 2), minShaderModel |-> 4]
          [] name = "Load"   -> [intrinsic |-> Intr("Texture_Load", 1), minShaderModel |-> 4]]

IsTextureIntrinsic(intrinsic) ==
    intrinsic.name \in {"Texture_GetDimensions", "Texture_Load", "Texture_Sample",
                        "Texture_SampleBias", "Texture_SampleCmp",
                        "Texture_SampleGrad", "Texture_SampleLevel"}

\* Analyzer::Register and Analyzer::Fetch on the global scope: the table
\* holds the registered global statements by their place in globalStmnts, and
\* of several declarations of a name the last one is fetched
AnalyzerRegister(tbl, ast) == tbl \cup {ast}

AnalyzerFetch(ident) ==
    IF \E k \in symTable_ : globalStmnts[k].ident = ident
    THEN globalStmnts[CHOOSE k \in symTable_ :
                         /\ globalStmnts[k].ident = ident
                         /\ \A j \in symTable_ : globalStmnts[j].ident = ident => j <= k]
    ELSE nullptr

\* Analyzer::FetchFromStructDecl: the member of that name, or null
FetchFromStructDecl(structTypeDen, ident) ==
    LET structDecl == AnalyzerFetch(structTypeDen.ident)
    IN  IF /\ structDecl # nullptr
           /\ \E k \in DOMAIN structDecl.members : structDecl.members[k].ident = ident
        THEN structDecl.members[CHOOSE k \in DOMAIN structDecl.members :
                                    structDecl.members[k].ident = ident]
        ELSE nullptr

\* Analyzer::FetchFunctionDecl: the function of that name, or null
FetchFunctionDecl(ident) ==
    LET symbol == AnalyzerFetch(ident)
    IN  IF symbol # nullptr /\ symbol.type = "FunctionDecl" THEN symbol ELSE nullptr

\* The helper functions work on the expression, the flags of the program and
\* the reports: a == [expr, flags, reports].  Analyzer::Error and
\* Analyzer::Warning add a report and return.
AnalyzerError(a, msg) == [a EXCEPT !.reports = Append(@, Report("Error", msg))]

AnalyzerWarning(a, msg) == [a EXCEPT !.reports = Append(@, Report("Warning", msg))]

AnalyzeSemantic(semantic) ==
    IF semantic.semantic = "Position" /\ shaderTarget_ = "VertexShader"
    THEN IndexedSemantic("VertexPosition", semantic.index)
    ELSE semantic

RECURSIVE AnalyzeVarIdentWithSymbol(_, _, _)

\* A struct member that is not found is reported by FetchFromStructDecl.
\* (first without the flag of the fragment coordinate)
AnalyzeVarIdentWithSymbolVarDecl_NoFlag(a, i, varDecl) ==
    IF i < Len(a.expr.varIdent) /\ varDecl.typeDenoter.type = "Struct"
    THEN IF FetchFromStructDecl(varDecl.typeDenoter, a.expr.varIdent[i + 1].ident) # nullptr
         THEN AnalyzeVarIdentWithSymbol(a, i + 1,
                  FetchFromStructDecl(varDecl.typeDenoter, a.expr.varIdent[i + 1].ident))
         ELSE AnalyzerError(a, "undeclared identifier")
    ELSE a
AnalyzeVarIdentWithSymbolVarDecl(a, i, varDecl) ==
    LET a1 == IF i < Len(a.expr.varIdent) /\ varDecl.typeDenoter.type = "Struct"
              THEN IF FetchFromStructDecl(varDecl.typeDenoter,
                                          a.expr.varIdent[i + 1].ident) # nullptr
                   THEN AnalyzeVarIdentWithSymbol(a, i + 1,
                            FetchFromStructDecl(varDecl.typeDenoter,
                                                a.expr.varIdent[i + 1].ident))
                   ELSE AnalyzerError(a, "undeclared identifier")
              ELSE a
    IN  IF varDecl.semantic.semantic = "Position" /\ shaderTarget_ = "FragmentShader"
        THEN [a1 EXCEPT !.flags = @ \cup {"isFragCoordUsed"}]
        ELSE a1

AnalyzeVarIdentWithSymbol(a, i, symbol) ==
    LET a1 == [a EXCEPT !.expr.varIdent[i].symbolRef = symbol,
                        !.expr.varIdent[i].assigned = @ + 1]
    IN  IF symbol.type = "VarDecl"
        THEN AnalyzeVarIdentWithSymbolVarDecl(a1, i, symbol)
        ELSE IF symbol.type \in {"TextureDecl", "SamplerDecl", "StructDecl", "AliasDecl"}
        THEN a1
        ELSE AnalyzerError(a1, "invalid symbol reference to variable identifier")

AnalyzeVarIdent(a, i) ==
    IF AnalyzerFetch(a.expr.varIdent[i].ident) # nullptr
    THEN AnalyzeVarIdentWithSymbol(a, i, AnalyzerFetch(a.expr.varIdent[i].ident))
    ELSE AnalyzerError(a, "undeclared identifier")

\* a function that is not found is reported by FetchFunctionDecl
AnalyzeFunctionCallStandard(a) ==
    IF Len(a.expr.varIdent) > 1
    THEN AnalyzeVarIdent(a, 1)
    ELSE IF FetchFunctionDecl(a.expr.varIdent[1].ident) # nullptr
    THEN [a EXCEPT !.expr.funcDeclRef = FetchFunctionDecl(a.expr.varIdent[1].ident)]
    ELSE AnalyzerError(a, "undeclared identifier")

\* AnalyzeFunctionCallIntrinsic for the call of a
FunctionCallIntrinsic(a, intr) ==
    [(IF shaderModel_ < intr.minShaderModel
      THEN AnalyzerWarning(a, "intrinsic requires shader model")
      ELSE a)
     EXCEPT !.expr.intrinsic = ConvertIntrinsic(intr.intrinsic, a.expr.arguments, 1)]

\* the switch over the type of the prefix's symbol in VisitFunctionCall, and
\* the call of AnalyzeFunctionCallIntrinsic that follows it
VerifyIntrinsic(a, intr, symbolType) ==
    FunctionCallIntrinsic(
        IF symbolType = "TextureDecl" /\ ~IsTextureIntrinsic(intr.intrinsic)
        THEN AnalyzerError(a, "invalid intrinsic for a texture object")
        ELSE a, intr)

\* what the read of symbolRef->Type() yields: the type of the symbol, and
\* for a null symbolRef whatever the wild read finds, if it returns at all
SymbolRefTypes(symbolRef) ==
    IF symbolRef = nullptr
    THEN {"crash", "TextureDecl", "VarDecl"}
    ELSE {symbolRef.type}

\* what DecorateASTPrimary stores of the input, and the program as parsed
analyzerInput == <<shaderTarget_, shaderModel_, versionIn_, entryPoint_, parsedStmnts>>

Analyzing == [expr |-> analysedExpr, flags |-> programFlags, reports |-> areports]

Analyzed(a, next) ==
    /\ analysedExpr' = a.expr
    /\ programFlags' = a.flags
    /\ areports' = a.reports
    /\ apc' = next
    /\ UNCHANGED <<analyzerInput, symTable_, globalStmnts, visited, entryPointRef,
                   nonAnalyzerVars>>

Declared(ast) ==
    /\ symTable_' = AnalyzerRegister(symTable_, visited + 1)
    /\ globalStmnts' = [globalStmnts EXCEPT ![visited + 1] = ast]
    /\ visited' = visited + 1
    /\ UNCHANGED <<apc, analyzerInput, analysedExpr, programFlags, entryPointRef,
                   nonAnalyzerVars>>

AtDeclaration(type) ==
    /\ apc = "program"
    /\ visited < Len(globalStmnts)
    /\ globalStmnts[visited + 1].type = type

AtExpr(type) ==
    /\ apc = "program"
    /\ visited = Len(globalStmnts)
    /\ analysedExpr.type = type

\* VisitVarDecl of a declaration without array dimensions and initializer
VarDeclVisited(ast) == [ast EXCEPT !.semantic = AnalyzeSemantic(@)]

VisitVarDecl ==
    /\ AtDeclaration("VarDecl")
    /\ Declared(VarDeclVisited(globalStmnts[visited + 1]))
    /\ UNCHANGED areports

VisitTextureDecl ==
    /\ AtDeclaration("TextureDecl")
    /\ Declared(globalStmnts[visited + 1])
    /\ UNCHANGED areports

\* a structure without base structure, not nested; its members are
\* registered in the scope the visit opens and closes
VisitStructDecl ==
    /\ AtDeclaration("StructDecl")
    /\ Declared([globalStmnts[visited + 1] EXCEPT
                    !.members = [k \in DOMAIN @ |-> VarDeclVisited(@[k])]])
    /\ areports' = IF Len(globalStmnts[visited + 1].members) = 0
                   THEN Append(areports, Report("Warning", "is completely empty"))
                   ELSE areports

VisitVarAccessExpr ==
    /\ AtExpr("VarAccessExpr")
    /\ Analyzed(AnalyzeVarIdent(Analyzing, 1), "done")

VisitFunctionCallMember(a) ==
    IF a.expr.varIdent[2].ident \in DOMAIN HLSLIntrinsics
    THEN \E type \in SymbolRefTypes(a.expr.varIdent[1].symbolRef) :
            IF type = "crash"
            THEN Analyzed(a, "crashed")
            ELSE Analyzed(VerifyIntrinsic(a, HLSLIntrinsics[a.expr.varIdent[2].ident],
                                          type), "done")
    ELSE Analyzed(AnalyzeFunctionCallStandard(a), "done")

VisitFunctionCall ==
    /\ AtExpr("FunctionCall")
    /\ IF Len(analysedExpr.varIdent) > 1
       THEN VisitFunctionCallMember(AnalyzeVarIdent(Analyzing, 1))
       ELSE IF analysedExpr.varIdent[1].ident \in DOMAIN HLSLIntrinsics
       THEN Analyzed(FunctionCallIntrinsic(Analyzing,
                         HLSLIntrinsics[analysedExpr.varIdent[1].ident]), "done")
       ELSE Analyzed(AnalyzeFunctionCallStandard(Analyzing), "done")

\* A function declaration without attributes and without body (a forward
\* declaration); a parameter is a VarDeclStmnt with one variable.
FunctionDecl(ident, returnType, semantic, parameters) ==
    [type |-> "FunctionDecl", ident |-> ident, returnType |-> returnType,
     semantic |-> semantic, parameters |-> parameters, flags |-> {},
     inputSemantics |-> <<>>, outputSemantics |-> <<>>]

Parameter(inputModifier, varDecl) ==
    [inputModifier |-> inputModifier, varDecl |-> varDecl]

\* VarDeclStmnt::IsInput, VarDeclStmnt::IsOutput
IsInput(param) == param.inputModifier \in {"", "in", "inout"}

IsOutput(param) == param.inputModifier \in {"out", "inout"}

\* IndexedSemantic::IsValid, IndexedSemantic::IsSystemValue
IsValid(semantic) == semantic.semantic # "Undefined"

IsSystemValue(semantic) == semantic.semantic \in {"Position", "VertexPosition"}

\* The entry-point analysis works on e == [stmnts, flags, reports,
\* entryPointRef]: the global statements, the flags of the program, the
\* reports and Program::entryPointRef.  A variable declaration is named by
\* where it lives: the statement and its place among that function's
\* parameters or that structure's members.
VarDeclRef(owner, var) == [stmnt |-> owner, var |-> var]

GetVarDecl(e, ref) ==
    IF e.stmnts[ref.stmnt].type = "FunctionDecl"
    THEN e.stmnts[ref.stmnt].parameters[ref.var].varDecl
    ELSE e.stmnts[ref.stmnt].members[ref.var]

AddVarDeclFlag(e, ref, flag) ==
    IF e.stmnts[ref.stmnt].type = "FunctionDecl"
    THEN [e EXCEPT !.stmnts[ref.stmnt].parameters[ref.var].varDecl.flags = @ \cup {flag}]
    ELSE [e EXCEPT !.stmnts[ref.stmnt].members[ref.var].flags = @ \cup {flag}]

\* StructTypeDenoter::structDeclRef
StructDeclRef(e, typeDenoter) ==
    CHOOSE s \in DOMAIN e.stmnts :
        e.stmnts[s].type = "StructDecl" /\ e.stmnts[s].ident = typeDenoter.ident

RECURSIVE AnalyzeEntryPointParameterInOut(_, _, _, _)
RECURSIVE AnalyzeEntryPointStructMembers(_, _, _, _, _)

\* (first with the structure's members added for both directions)
AnalyzeEntryPointStructInOut_BothDirections(e, funcDecl, structDecl, structAliasName, input) ==
    [AnalyzeEntryPointStructMembers(
         AnalyzeEntryPointStructMembers(
             [e EXCEPT !.stmnts[structDecl].aliasName = structAliasName],
             funcDecl, structDecl, 1, input),
         funcDecl, structDecl, 1, ~input)
     EXCEPT !.stmnts[structDecl].flags =
                @ \cup {IF input THEN "isShaderInput" ELSE "isShaderOutput"}]
AnalyzeEntryPointStructInOut(e, funcDecl, structDecl, structAliasName, input) ==
    [AnalyzeEntryPointStructMembers(
         [e EXCEPT !.stmnts[structDecl].aliasName = structAliasName],
         funcDecl, structDecl, 1, input)
     EXCEPT !.stmnts[structDecl].flags =
                @ \cup {IF input THEN "isShaderInput" ELSE "isShaderOutput"}]

\* the loop over structDecl->members from member m on
AnalyzeEntryPointStructMembers(e, funcDecl, structDecl, m, input) ==
    IF m > Len(e.stmnts[structDecl].members)
    THEN e
    ELSE AnalyzeEntryPointStructMembers(
             AnalyzeEntryPointParameterInOut(e, funcDecl, VarDeclRef(structDecl, m), input),
             funcDecl, structDecl, m + 1, input)

\* the variable is added to the input or to the output semantics
AddSemantic(e, funcDecl, ref, input) ==
    IF input
    THEN AddVarDeclFlag([e EXCEPT !.stmnts[funcDecl].inputSemantics = Append(@, ref)],
                        ref, "isShaderInput")
    ELSE AddVarDeclFlag([e EXCEPT !.stmnts[funcDecl].outputSemantics = Append(@, ref)],
                        ref, "isShaderOutput")

AnalyzeEntryPointParameterInOut(e, funcDecl, ref, input) ==
    IF GetVarDecl(e, ref).typeDenoter.type = "Struct"
    THEN AnalyzeEntryPointStructInOut(e, funcDecl,
             StructDeclRef(e, GetVarDecl(e, ref).typeDenoter),
             GetVarDecl(e, ref).ident, input)
    ELSE AddSemantic(
             IF IsValid(GetVarDecl(e, ref).semantic)
             THEN IF IsSystemValue(GetVarDecl(e, ref).semantic)
                  THEN AddVarDeclFlag(e, ref, "isSystemValue")
                  ELSE e
             ELSE AnalyzerError(e, "missing semantic in parameter of entry point"),
             funcDecl, ref, input)

AnalyzeEntryPointParameter(e, funcDecl, p) ==
    LET e1 == IF IsInput(e.stmnts[funcDecl].parameters[p])
              THEN AnalyzeEntryPointParameterInOut(e, funcDecl, VarDeclRef(funcDecl, p), TRUE)
              ELSE e
    IN  IF IsOutput(e.stmnts[funcDecl].parameters[p])
        THEN AnalyzeEntryPointParameterInOut(e1, funcDecl, VarDeclRef(funcDecl, p), FALSE)
        ELSE e1

\* the loop over funcDecl->parameters from parameter p on
RECURSIVE AnalyzeEntryPointParameters(_, _, _)
AnalyzeEntryPointParameters(e, funcDecl, p) ==
    IF p > Len(e.stmnts[funcDecl].parameters)
    THEN e
    ELSE AnalyzeEntryPointParameters(AnalyzeEntryPointParameter(e, funcDecl, p),
                                     funcDecl, p + 1)

AnalyzeEntryPointReturnType(e, funcDecl) ==
    IF e.stmnts[funcDecl].returnType.type = "Struct"
    THEN AnalyzeEntryPointStructInOut(e, funcDecl,
             StructDeclRef(e, e.stmnts[funcDecl].returnType), "", FALSE)
    ELSE e

AnalyzeEntryPoint(e, funcDecl) ==
    LET e1 == AnalyzeEntryPointReturnType(
                  AnalyzeEntryPointParameters(
                      [e EXCEPT !.entryPointRef = funcDecl,
                                !.stmnts[funcDecl].flags = @ \cup {"isEntryPoint"}],
                      funcDecl, 1),
                  funcDecl)
    IN  IF shaderTarget_ = "FragmentShader" /\ versionIn_ = "HLSL3"
        THEN [e1 EXCEPT !.flags = @ \cup {"hasSM3ScreenSpace"}]
        ELSE e1

\* VisitFunctionDecl up to the entry-point analysis: the return semantic and
\* the parameters are visited
FunctionDeclVisited(ast) ==
    [ast EXCEPT !.semantic = AnalyzeSemantic(@),
                !.parameters = [p \in DOMAIN ast.parameters |->
                                   [ast.parameters[p] EXCEPT
                                       !.varDecl = VarDeclVisited(@)]]]

EntryPointAnalyzed(e) ==
    /\ globalStmnts' = e.stmnts
    /\ programFlags' = e.flags
    /\ areports' = e.reports
    /\ entryPointRef' = e.entryPointRef
    /\ symTable_' = AnalyzerRegister(symTable_, visited + 1)
    /\ visited' = visited + 1
    /\ UNCHANGED <<apc, analyzerInput, analysedExpr, nonAnalyzerVars>>

\* isEntryPoint in VisitFunctionDecl
IsEntryPoint(ast) == ast.ident = entryPoint_

VisitFunctionDecl ==
    /\ AtDeclaration("FunctionDecl")
    /\ EntryPointAnalyzed(
           IF IsEntryPoint(globalStmnts[visited + 1])
           THEN AnalyzeEntryPoint(
                    [stmnts |-> [globalStmnts EXCEPT
                                    ![visited + 1] = FunctionDeclVisited(@)],
                     flags |-> programFlags, reports |-> areports,
                     entryPointRef |-> entryPointRef],
                    visited + 1)
           ELSE [stmnts |-> [globalStmnts EXCEPT
                                ![visited + 1] = FunctionDeclVisited(@)],
                 flags |-> programFlags, reports |-> areports,
                 entryPointRef |-> entryPointRef])

\* VisitProgram returns
VisitProgramEnd ==
    /\ apc = "program"
    /\ visited = Len(globalStmnts)
    /\ analysedExpr = nullptr
    /\ apc' = "done"
    /\ UNCHANGED <<analyzerInput, symTable_, globalStmnts, visited, analysedExpr,
                   programFlags, entryPointRef, areports, nonAnalyzerVars>>

NextAnalyzer ==
    \/ VisitVarDecl
    \/ VisitTextureDecl
    \/ VisitStructDecl
    \/ VisitFunctionDecl
    \/ VisitVarAccessExpr
    \/ VisitFunctionCall
    \/ VisitProgramEnd

\* The programs analysed: nothing, a texture a, a variable a of a base type
\* with a semantic, or a variable a of a structure S with one member m
Semantics ==
    {NoSemantic, IndexedSemantic("Position", 0), IndexedSemantic("Position", 1),
     IndexedSemantic("TexCoord", 0)}

AnalyzedDeclarations ==
    {<<>>, <<TextureDecl("a")>>}
        \cup {<<VarDecl("a", BaseTypeDenoter, s)>> : s \in Semantics}
        \cup {<<StructDecl("S", <<VarDecl("m", BaseTypeDenoter, s)>>),
                VarDecl("a", StructTypeDenoter("S"), NoSemantic)>> : s \in Semantics}

AnalyzedVarIdents ==
    {<<VarIdent("a")>>, <<VarIdent("a"), VarIdent("m")>>,
     <<VarIdent("a"), VarIdent("x")>>}

CalledVarIdents ==
    {<<VarIdent(f)>> : f \in {"f", "clip", "Sample"}}
        \cup {<<VarIdent("a"), VarIdent(f)>> : f \in {"f", "clip", "Sample", "Load"}}

AnalyzedExprs ==
    {VarAccessExpr(v) : v \in AnalyzedVarIdents}
        \cup {FunctionCall(v, n) : v \in CalledVarIdents, n \in 1 .. MaxArgs}

\* The programs whose entry point is analysed: the structures T and S, S
\* with a member of type T, and one or two functions named main or f
structT == StructDecl("T", <<VarDecl("k", BaseTypeDenoter, IndexedSemantic("TexCoord", 1))>>)

structS ==
    StructDecl("S", <<VarDecl("m", BaseTypeDenoter, IndexedSemantic("Position", 0)),
                      VarDecl("n", StructTypeDenoter("T"), NoSemantic)>>)

ParameterVarDecls(ident) ==
    {VarDecl(ident, BaseTypeDenoter, IndexedSemantic("Position", 0)),
     VarDecl(ident, BaseTypeDenoter, NoSemantic),
     VarDecl(ident, StructTypeDenoter("S"), NoSemantic),
     VarDecl(ident, StructTypeDenoter("T"), NoSemantic)}

InputModifiers == {"", "in", "out", "inout"}

ParameterLists ==
    {<<>>}
        \cup {<<Parameter(m, v)>> : m \in InputModifiers, v \in ParameterVarDecls("p")}
        \cup {<<Parameter("in", VarDecl("p", StructTypeDenoter("S"), NoSemantic)),
                Parameter(m, VarDecl("q", StructTypeDenoter("S"), NoSemantic))>> :
                    m \in {"in", "out"}}
        \cup {<<Parameter("in", VarDecl("p", BaseTypeDenoter, IndexedSemantic("TexCoord", 0))),
                Parameter("out", VarDecl("q", BaseTypeDenoter, IndexedSemantic("Position", 0)))>>}

ReturnTypes ==
    {<<BaseTypeDenoter, NoSemantic>>, <<BaseTypeDenoter, IndexedSemantic("Position", 0)>>,
     <<StructTypeDenoter("S"), NoSemantic>>}

FunctionDecls ==
    {FunctionDecl(ident, r[1], r[2], ps) :
        ident \in {"main", "f"}, r \in ReturnTypes, ps \in ParameterLists}

SecondFunctionDecls ==
    {FunctionDecl(ident, r[1], r[2], ps) :
        ident \in {"main", "f"},
        r \in {<<BaseTypeDenoter, NoSemantic>>, <<StructTypeDenoter("S"), NoSemantic>>},
        ps \in {<<>>, <<Parameter("in", VarDecl("p", StructTypeDenoter("S"), NoSemantic))>>}}

EntryPointPrograms ==
    {<<structT, structS, f>> : f \in FunctionDecls}
        \cup {<<structT, structS, f, g>> : f \in FunctionDecls, g \in SecondFunctionDecls}

InitAnalyzer ==
    /\ apc = "program"
    /\ versionIn_ \in InputShaderVersions
    /\ shaderModel_ = GetShaderModel(versionIn_)
    /\ entryPoint_ = "main"
    /\ entryPointRef = 0
    /\ symTable_ = {}
    /\ \/ /\ shaderTarget_ \in ShaderTargets
          /\ globalStmnts \in AnalyzedDeclarations
          /\ analysedExpr \in AnalyzedExprs
       \/ /\ shaderTarget_ \in {"VertexShader", "FragmentShader", "ComputeShader"}
          /\ globalStmnts \in EntryPointPrograms
          /\ analysedExpr = nullptr
    /\ parsedStmnts = globalStmnts
    /\ visited = 0
    /\ programFlags = {}
    /\ areports = <<>>
    /\ NonAnalyzerIdle

SpecAnalyzer == InitAnalyzer /\ [][NextAnalyzer]_vars

(***************************************************************************)
(* HLSLParser: the annotations behind a declarator (semantics, registers   *)
(* and pack offsets), parsed by ParseVarDeclSemantic for a variable, by    *)
(* ParseFunctionDeclSemantic for a function and by ParseRegisterList for   *)
(* a uniform buffer.  A parse function takes and returns the parser state  *)
(* s == [toks, reports, thrown, ast]; after a Report was thrown every      *)
(* parse function returns the state as it is.                              *)
(***************************************************************************)
MaxAnnotations == 2    \* annotations behind one declarator

\* the characters of the spellings that occur (std::string)
Characters(spell) ==
    CASE spell = "b0"     -> <<"b", "0">>
      [] spell = "t1"     -> <<"t", "1">>
      [] spell = "x2"     -> <<"x", "2">>
      [] spell = "c0"     -> <<"c", "0">>
      [] spell = "ps_5_0" -> <<"p", "s", "_", "5", "_", "0">>
      [] spell = "vs"     -> <<"v", "s">>
      [] spell = "vsfoo"  -> <<"v", "s", "f", "o", "o">>
      [] spell = "xx_5_0" -> <<"x", "x", "_", "5", "_", "0">>
      [] spell = "v"      -> <<"v">>
      [] spell = "0"      -> <<"0">>
      [] spell = "1"      -> <<"1">>
      [] spell = "2"      -> <<"2">>
      [] spell = "16"     -> <<"1", "6">>
      [] OTHER            -> <<>>

IsDigit(c) == c \in {"0", "1", "2", "3", "4", "5", "6", "7", "8", "9"}

DigitValue(c) ==
    CHOOSE d \in 0 .. 9 : <<"0", "1", "2", "3", "4", "5", "6", "7", "8", "9">>[d + 1] = c

\* FromString<int> of a string of digits
RECURSIVE FromString(_)
FromString(s) ==
    IF s = <<>> THEN 0
    ELSE FromString(SubSeq(s, 1, Len(s) - 1)) * 10 + DigitValue(s[Len(s)])

HLSLShaderProfileToTarget(s) ==
    IF Len(s) >= 2
    THEN CASE SubSeq(s, 1, 2) = <<"v", "s">> -> "VertexShader"
           [] SubSeq(s, 1, 2) = <<"h", "s">> -> "TessellationControlShader"
           [] SubSeq(s, 1, 2) = <<"d", "s">> -> "TessellationEvaluationShader"
           [] SubSeq(s, 1, 2) = <<"g", "s">> -> "GeometryShader"
           [] SubSeq(s, 1, 2) = <<"p", "s">> -> "FragmentShader"
           [] SubSeq(s, 1, 2) = <<"c", "s">> -> "ComputeShader"
           [] OTHER -> "Undefined"
    ELSE "Undefined"

CharToRegisterType(c) ==
    CASE c = "b" -> "ConstantBuffer"
      [] c = "t" -> "TextureBuffer"
      [] c = "c" -> "BufferOffset"
      [] c = "s" -> "Sampler"
      [] c = "u" -> "UnorderedAccessView"
      [] OTHER   -> "Undefined"

ParserState(toks, reports) ==
    [toks |-> toks, reports |-> reports, thrown |-> FALSE, ast |-> nullptr]

\* Parser::Warning adds a report; Parser::Error adds one and throws it
ParserWarning(s, msg) ==
    IF s.thrown THEN s ELSE [s EXCEPT !.reports = Append(@, Report("Warning", msg))]

ParserError(s, msg) ==
    IF s.thrown THEN s
    ELSE [s EXCEPT !.reports = Append(@, Report("Error", msg)), !.thrown = TRUE]

\* Parser::Accept(type), Parser::AcceptIt and ParseIdent on a parser state
Expect(s, type) ==
    IF s.thrown THEN s
    ELSE IF Is(s.toks, type) THEN [s EXCEPT !.toks = AcceptIt(@)]
    ELSE ParserError(s, "unexpected token")

Spell(s) == Characters(Tkn(s.toks).spell)

At(s, type) == ~s.thrown /\ Is(s.toks, type)

Returned(s, ast) == IF s.thrown THEN s ELSE [s EXCEPT !.ast = ast]

Register(shaderTarget, profile, registerType, slot) ==
    [shaderTarget |-> shaderTarget, profile |-> profile,
     registerType |-> registerType, slot |-> slot]

\* ParseRegister from the optional profile on: first is the identifier parsed
\* behind the bracket, s the state behind it
ParseRegisterSlot(s, profile, typeIdent, hasProfile) ==
    LET slotted == IF CharToRegisterType(Head(typeIdent)) = "Undefined"
                   THEN ParserWarning(s, "unknown slot register")
                   ELSE s
        hasSubComponent == At(slotted, "LParen")
        subComponent == Spell(Expect(slotted, "LParen"))
        closed == IF hasSubComponent
                  THEN Expect(Expect(Expect(slotted, "LParen"), "IntLiteral"), "RParen")
                  ELSE slotted
    IN  Returned(Expect(closed, "RBracket"),
                 Register(IF hasProfile THEN HLSLShaderProfileToTarget(profile)
                                        ELSE "Undefined",
                          IF hasProfile THEN profile ELSE <<>>,
                          CharToRegisterType(Head(typeIdent)),
                          FromString(Tail(typeIdent))
                              + (IF hasSubComponent THEN FromString(subComponent) ELSE 0)))

ParseRegisterProfile(s, first) ==
    IF s.thrown THEN s
    ELSE IF Is(s.toks, "Comma")
    THEN IF Is(AcceptIt(s.toks), "Ident")
         THEN ParseRegisterSlot(Expect(Expect(s, "Comma"), "Ident"), first,
                                Spell(Expect(s, "Comma")), TRUE)
         ELSE Expect(Expect(s, "Comma"), "Ident")
    ELSE ParseRegisterSlot(s, first, first, FALSE)

ParseRegister(s, parseColon) ==
    LET opened == Expect(Expect(IF parseColon THEN Expect(s, "Colon") ELSE s,
                                "Register"), "LBracket")
    IN  IF At(opened, "Ident")
        THEN ParseRegisterProfile(Expect(opened, "Ident"), Spell(opened))
        ELSE Expect(opened, "Ident")

PackOffset(registerName, vectorComponent) ==
    [registerName |-> registerName, vectorComponent |-> vectorComponent]

ParsePackOffset(s, parseColon) ==
    LET opened == Expect(Expect(IF parseColon THEN Expect(s, "Colon") ELSE s,
                                "PackOffset"), "LBracket")
        named == Expect(opened, "Ident")
        dotted == At(named, "Dot")
        component == Expect(Expect(named, "Dot"), "Ident")
    IN  Returned(Expect(IF dotted THEN component ELSE named, "RBracket"),
                 PackOffset(Tkn(opened.toks).spell,
                            IF dotted THEN Tkn(Expect(named, "Dot").toks).spell ELSE ""))

\* HLSLKeywordToSemantic is taken to keep the spelling
ParseSemantic(s, parseColon) ==
    LET coloned == IF parseColon THEN Expect(s, "Colon") ELSE s
    IN  Returned(Expect(coloned, "Ident"), Tkn(coloned.toks).spell)

\* ParseVarDecl calls ParseVarDeclSemantic(*ast) for every variable, whatever
\* declares it: allowPackOffset is the default argument of the declaration
VarContexts == {"GlobalVar", "LocalVar", "StructMember", "Parameter", "BufferMember"}

ErrPackOffset == "ERR_PACK_OFFSET_IN_INVALID_SCOPE"

AnnotationParsing == ParserState(dtokens, dreports)

\* the parser goes on behind s; what the iteration stored is given apart
AnnotationParsed(s, decl, regs) ==
    /\ dtokens' = s.toks
    /\ dreports' = s.reports
    /\ dpc' = IF s.thrown THEN "failed" ELSE "annotations"
    /\ declarator' = decl
    /\ registers' = regs
    /\ UNCHANGED <<dcontext, dsource, allowPackOffsetDefault, nonAnnotationVars>>

RegisterParsed(s) ==
    AnnotationParsed(s, declarator,
                     IF s.thrown THEN registers ELSE Append(registers, s.ast))

PackOffsetParsed(s, allowed) ==
    AnnotationParsed(IF allowed THEN s ELSE ParserError(s, ErrPackOffset),
                     IF s.thrown THEN declarator
                     ELSE [declarator EXCEPT !.packOffset = s.ast],
                     registers)

SemanticParsed(s) ==
    AnnotationParsed(s, IF s.thrown THEN declarator
                        ELSE [declarator EXCEPT !.semantic = s.ast], registers)

\* one iteration of the loop of ParseVarDeclSemantic
ParseVarDeclSemanticLoop ==
    /\ dpc = "annotations"
    /\ dcontext \in VarContexts
    /\ Is(dtokens, "Colon")
    /\ IF Is(AcceptIt(dtokens), "Register")
       THEN RegisterParsed(
                ParseRegister(ParserWarning(Expect(AnnotationParsing, "Colon"),
                                  "register is ignore for variable declarations"),
                              FALSE))
       ELSE IF Is(AcceptIt(dtokens), "PackOffset")
       THEN PackOffsetParsed(ParsePackOffset(Expect(AnnotationParsing, "Colon"), FALSE),
                             allowPackOffsetDefault)
       ELSE SemanticParsed(ParseSemantic(Expect(AnnotationParsing, "Colon"), FALSE))

\* one iteration of the loop of ParseFunctionDeclSemantic
ParseFunctionDeclSemanticLoop ==
    /\ dpc = "annotations"
    /\ dcontext = "Function"
    /\ Is(dtokens, "Colon")
    /\ IF Is(AcceptIt(dtokens), "Register")
       THEN RegisterParsed(
                ParseRegister(ParserWarning(Expect(AnnotationParsing, "Colon"),
                                  "register is ignore for function declarations"),
                              FALSE))
       ELSE IF Is(AcceptIt(dtokens), "PackOffset")
       THEN AnnotationParsed(
                ParsePackOffset(ParserError(Expect(AnnotationParsing, "Colon"),
                                            ErrPackOffset), FALSE),
                declarator, registers)
       ELSE SemanticParsed(ParseSemantic(Expect(AnnotationParsing, "Colon"), FALSE))

\* one iteration of the loop of ParseRegisterList, for ParseBufferDeclStmnt
ParseRegisterListLoop ==
    /\ dpc = "annotations"
    /\ dcontext = "Buffer"
    /\ Is(dtokens, "Colon")
    /\ RegisterParsed(ParseRegister(AnnotationParsing, TRUE))

\* the loop ends in front of the first token that is no colon
ParseAnnotationsEnd ==
    /\ dpc = "annotations"
    /\ ~Is(dtokens, "Colon")
    /\ dpc' = "done"
    /\ UNCHANGED <<dtokens, dcontext, dsource, allowPackOffsetDefault, declarator,
                   registers, dreports, nonAnnotationVars>>

NextAnnotation ==
    \/ ParseVarDeclSemanticLoop
    \/ ParseFunctionDeclSemanticLoop
    \/ ParseRegisterListLoop
    \/ ParseAnnotationsEnd

\* The annotations written: a semantic, a pack offset with or without
\* component, and registers with and without profile
SemanticAnnotation == [kind |-> "semantic", profile |-> "", slot |-> "", sub |-> FALSE]

PackOffsetAnnotation(dotted) ==
    [kind |-> "packoffset", profile |-> "", slot |-> "", sub |-> dotted]

RegisterAnnotation(profile, slot, sub) ==
    [kind |-> "register", profile |-> profile, slot |-> slot, sub |-> sub]

RegisterAnnotations ==
    {RegisterAnnotation(p, "b0", FALSE) : p \in {"", "ps_5_0", "vs", "vsfoo", "xx_5_0", "v"}}
        \cup {RegisterAnnotation("", "x2", FALSE), RegisterAnnotation("ps_5_0", "t1", TRUE)}

Annotations ==
    {SemanticAnnotation, PackOffsetAnnotation(FALSE), PackOffsetAnnotation(TRUE)}
        \cup RegisterAnnotations

AnnotationToks(a) ==
    <<T("Colon", ":")>> \o
    CASE a.kind = "semantic" -> <<Id("POSITION")>>
      [] a.kind = "packoffset" ->
            <<T("PackOffset", "packoffset"), tkLBracket, Id("c0")>>
            \o (IF a.sub THEN <<tkDot, Id("x")>> ELSE <<>>) \o <<tkRBracket>>
      [] a.kind = "register" ->
            <<T("Register", "register"), tkLBracket>>
            \o (IF a.profile # "" THEN <<Id(a.profile), tkComma>> ELSE <<>>)
            \o <<Id(a.slot)>>
            \o (IF a.sub THEN <<tkLParen, tkOne, tkRParen>> ELSE <<>>)
            \o <<tkRBracket>>

DeclaratorContexts == VarContexts \cup {"Function", "Buffer"}

InitAnnotation ==
    /\ dpc = "annotations"
    /\ dcontext \in DeclaratorContexts
    /\ dsource \in SeqsUpTo(IF dcontext = "Buffer" THEN RegisterAnnotations
                                                   ELSE Annotations, MaxAnnotations)
    /\ dtokens = Flatten([k \in DOMAIN dsource |-> AnnotationToks(dsource[k])])
                    \o <<tkSemicolon>>
    /\ allowPackOffsetDefault \in BOOLEAN
    /\ declarator = [semantic |-> "", packOffset |-> nullptr]
    /\ registers = <<>>
    /\ dreports = <<>>
    /\ NonAnnotationIdle

SpecAnnotation == InitAnnotation /\ [][NextAnnotation]_vars

(***************************************************************************)
(* HLSLAnalyzer::VisitSamplerDecl: the values of a sampler's state block   *)
(* are analysed one after the other into a SamplerState, which is stored   *)
(* in the statistics.  The values are drawn as the loop reaches them.      *)
(***************************************************************************)
MaxSamplerValues == 2    \* values in the state block of a sampler

\* a numeric field of SamplerState that holds its default, or what was assigned
DefaultValue(v) == [isDefault |-> TRUE, value |-> v]

Assigned(v) == [isDefault |-> FALSE, value |-> v]

\* SamplerState samplerState;
DefaultSamplerState ==
    [filter |-> "default", addressU |-> "default", addressV |-> "default",
     addressW |-> "default", comparisonFunc |-> "default",
     mipLODBias |-> DefaultValue(0), maxAnisotropy |-> DefaultValue(0),
     minLOD |-> DefaultValue(0), maxLOD |-> DefaultValue(0),
     borderColor |-> DefaultValue(<<0, 0, 0, 0>>)]

\* the static valueMap of the three table functions: spelling and enumerator
FilterValueMap ==
    {<<"MIN_MAG_MIP_POINT", "MinMagMipPoint">>,
     <<"MIN_MAG_POINT_MIP_LINEAR", "MinMagPointMipLinear">>,
     <<"MIN_POINT_MAG_LINEAR_MIP_POINT", "MinPointMagLinearMipPoint">>,
     <<"MIN_POINT_MAG_MIP_LINEAR", "MinPointMagMipLinear">>,
     <<"MIN_LINEAR_MAG_MIP_POINT", "MinLinearMagMipPoint">>,
     <<"MIN_LINEAR_MAG_POINT_MIP_LINEAR", "MinLinearMagPointMipLinear">>,
     <<"MIN_MAG_LINEAR_MIP_POINT", "MinMagLinearMipPoint">>,
     <<"MIN_MAG_MIP_LINEAR", "MinMagMipLinear">>, <<"ANISOTROPIC", "Anisotropic">>,
     <<"COMPARISON_MIN_MAG_MIP_POINT", "ComparisonMinMagMipPoint">>,
     <<"COMPARISON_MIN_MAG_POINT_MIP_LINEAR", "ComparisonMinMagPointMipLinear">>,
     <<"COMPARISON_MIN_POINT_MAG_LINEAR_MIP_POINT", "ComparisonMinPointMagLinearMipPoint">>,
     <<"COMPARISON_MIN_POINT_MAG_MIP_LINEAR", "ComparisonMinPointMagMipLinear">>,
     <<"COMPARISON_MIN_LINEAR_MAG_MIP_POINT", "ComparisonMinLinearMagMipPoint">>,
     <<"COMPARISON_MIN_LINEAR_MAG_POINT_MIP_LINEAR", "ComparisonMinLinearMagPointMipLinear">>,
     <<"COMPARISON_MIN_MAG_LINEAR_MIP_POINT", "ComparisonMinMagLinearMipPoint">>,
     <<"COMPARISON_MIN_MAG_MIP_LINEAR", "ComparisonMinMagMipLinear">>,
     <<"COMPARISON_ANISOTROPIC", "ComparisonAnisotropic">>,
     <<"MINIMUM_MIN_MAG_MIP_POINT", "MinimumMinMagMipPoint">>,
     <<"MINIMUM_MIN_MAG_POINT_MIP_LINEAR", "MinimumMinMagPointMipLinear">>,
     <<"MINIMUM_MIN_POINT_MAG_LINEAR_MIP_POINT", "MinimumMinPointMagLinearMipPoint">>,
     <<"MINIMUM_MIN_POINT_MAG_MIP_LINEAR", "MinimumMinPointMagMipLinear">>,
     <<"MINIMUM_MIN_LINEAR_MAG_MIP_POINT", "MinimumMinLinearMagMipPoint">>,
     <<"MINIMUM_MIN_LINEAR_MAG_POINT_MIP_LINEAR", "MinimumMinLinearMagPointMipLinear">>,
     <<"MINIMUM_MIN_MAG_LINEAR_MIP_POINT", "MinimumMinMagLinearMipPoint">>,
     <<"MINIMUM_MIN_MAG_MIP_LINEAR", "MinimumMinMagMipLinear">>,
     <<"MINIMUM_ANISOTROPIC", "MinimumAnisotropic">>,
     <<"MAXIMUM_MIN_MAG_MIP_POINT", "MaximumMinMagMipPoint">>,
     <<"MAXIMUM_MIN_MAG_POINT_MIP_LINEAR", "MaximumMinMagPointMipLinear">>,
     <<"MAXIMUM_MIN_POINT_MAG_LINEAR_MIP_POINT", "MaximumMinPointMagLinearMipPoint">>,
     <<"MAXIMUM_MIN_POINT_MAG_MIP_LINEAR", "MaximumMinPointMagMipLinear">>,
     <<"MAXIMUM_MIN_LINEAR_MAG_MIP_POINT", "MaximumMinLinearMagMipPoint">>,
     <<"MAXIMUM_MIN_LINEAR_MAG_POINT_MIP_LINEAR", "MaximumMinLinearMagPointMipLinear">>,
     <<"MAXIMUM_MIN_MAG_LINEAR_MIP_POINT", "MaximumMinMagLinearMipPoint">>,
     <<"MAXIMUM_MIN_MAG_MIP_LINEAR", "MaximumMinMagMipLinear">>,
     <<"MAXIMUM_ANISOTROPIC", "MaximumAnisotropic">>}

TextureAddressModeValueMap ==
    {<<"WRAP", "Wrap">>, <<"MIRROR", "Mirror">>, <<"CLAMP", "Clamp">>,
     <<"BORDER", "Border">>, <<"MIRROR_ONCE", "MirrorOnce">>}

ComparisonFuncValueMap ==
    {<<"COMPARISON_NEVER", "Never">>, <<"COMPARISON_LESS", "Less">>,
     <<"COMPARISON_EQUAL", "Equal">>, <<"COMPARISON_LESS_EQUAL", "LessEqual">>,
     <<"COMPARISON_GREATER", "Greater">>, <<"COMPARISON_NOT_EQUAL", "NotEqual">>,
     <<"COMPARISON_GREATER_EQUAL", "GreaterEqual">>,
     <<"COMPARISON_ALWAYS", "Always">>}

\* valueMap.find(value): the entries found
MapFind(valueMap, value) == {e \in valueMap : e[1] = value}

MapSecond(valueMap, value) == (CHOOSE e \in MapFind(valueMap, value) : TRUE)[2]

AnalyzeSamplerValueFilter(value, filter) ==
    IF MapFind(FilterValueMap, value) # {}
    THEN MapSecond(FilterValueMap, value) ELSE filter

\* (first with the address mode reset by a value that is not in the map)
AnalyzeSamplerValueTextureAddressMode_Reset(value, addressMode) ==
    IF MapFind(TextureAddressModeValueMap, value) # {}
    THEN MapSecond(TextureAddressModeValueMap, value) ELSE "default"
AnalyzeSamplerValueTextureAddressMode(value, addressMode) ==
    IF MapFind(TextureAddressModeValueMap, value) # {}
    THEN MapSecond(TextureAddressModeValueMap, value) ELSE addressMode

AnalyzeSamplerValueComparisonFunc(value, comparisonFunc) ==
    IF MapFind(ComparisonFuncValueMap, value) # {}
    THEN MapSecond(ComparisonFuncValueMap, value) ELSE comparisonFunc

\* the expressions a sampler value is given by
SamplerLiteralExpr(value) ==
    [type |-> "LiteralExpr", value |-> value, arguments |-> <<>>, isVector |-> FALSE]

SamplerVarAccessExpr(ident) ==
    [type |-> "VarAccessExpr", value |-> ident, arguments |-> <<>>, isVector |-> FALSE]

\* a call, a cast and an initializer whose sub expressions are constants
SamplerFunctionCallExpr(isVector, arguments) ==
    [type |-> "FunctionCallExpr", value |-> "", arguments |-> arguments,
     isVector |-> isVector]

SamplerCastExpr(subExpr) ==
    [type |-> "CastExpr", value |-> "", arguments |-> <<subExpr>>, isVector |-> FALSE]

SamplerInitializerExpr(exprs) ==
    [type |-> "InitializerExpr", value |-> "", arguments |-> exprs, isVector |-> FALSE]

SamplerValue(name, value) == [name |-> name, value |-> value]

\* EvaluateConstExprFloat of a literal
EvaluateConstExprFloat(literal) == FromString(Characters(literal))

\* the state and the reports behind AnalyzeSamplerValue
SamplerAnalysis(state, reports) == [state |-> state, reports |-> reports]

AnalyzeSamplerValueBorderColor(value, s) ==
    IF value.type = "FunctionCallExpr"
    THEN IF value.isVector /\ Len(value.arguments) = 4
         THEN SamplerAnalysis(
                  [s.state EXCEPT !.borderColor =
                      Assigned([i \in 1 .. 4 |-> EvaluateConstExprFloat(value.arguments[i])])],
                  s.reports)
         ELSE SamplerAnalysis(s.state, Append(s.reports, Report("Warning",
                  "invalid type or invalid number of arguments to initialize sampler value 'BorderColor'")))
    ELSE IF value.type = "CastExpr"
    THEN SamplerAnalysis(
             [s.state EXCEPT !.borderColor =
                 Assigned([i \in 1 .. 4 |-> EvaluateConstExprFloat(value.arguments[1])])],
             s.reports)
    ELSE IF value.type = "InitializerExpr"
    THEN IF Len(value.arguments) = 4
         THEN SamplerAnalysis(
                  [s.state EXCEPT !.borderColor =
                      Assigned([i \in 1 .. 4 |-> EvaluateConstExprFloat(value.arguments[i])])],
                  s.reports)
         ELSE SamplerAnalysis(s.state, Append(s.reports, Report("Warning",
                  "invalid number of arguments to initialize sampler value 'BorderColor'")))
    ELSE s

AnalyzeSamplerValue(ast, s) ==
    IF ast.value.type = "LiteralExpr"
    THEN SamplerAnalysis(
             CASE ast.name = "MipLODBias" ->
                    [s.state EXCEPT !.mipLODBias =
                        Assigned(FromString(Characters(ast.value.value)))]
               [] ast.name = "MaxAnisotropy" ->
                    [s.state EXCEPT !.maxAnisotropy =
                        Assigned(FromString(Characters(ast.value.value)))]
               [] ast.name = "MinLOD" ->
                    [s.state EXCEPT !.minLOD =
                        Assigned(FromString(Characters(ast.value.value)))]
               [] ast.name = "MaxLOD" ->
                    [s.state EXCEPT !.maxLOD =
                        Assigned(FromString(Characters(ast.value.value)))]
               [] OTHER -> s.state,
             s.reports)
    ELSE IF ast.value.type = "VarAccessExpr"
    THEN SamplerAnalysis(
             CASE ast.name = "Filter" ->
                    [s.state EXCEPT !.filter =
                        AnalyzeSamplerValueFilter(ast.value.value, @)]
               [] ast.name = "AddressU" ->
                    [s.state EXCEPT !.addressU =
                        AnalyzeSamplerValueTextureAddressMode(ast.value.value, @)]
               [] ast.name = "AddressV" ->
                    [s.state EXCEPT !.addressV =
                        AnalyzeSamplerValueTextureAddressMode(ast.value.value, @)]
               [] ast.name = "AddressW" ->
                    [s.state EXCEPT !.addressW =
                        AnalyzeSamplerValueTextureAddressMode(ast.value.value, @)]
               [] ast.name = "ComparisonFunc" ->
                    [s.state EXCEPT !.comparisonFunc =
                        AnalyzeSamplerValueComparisonFunc(ast.value.value, @)]
               [] OTHER -> s.state,
             s.reports)
    ELSE IF ast.name = "BorderColor"
    THEN AnalyzeSamplerValueBorderColor(ast.value, s)
    ELSE s

\* the values a state block is written with
SamplerValueNames ==
    {"Filter", "AddressU", "AddressV", "AddressW", "ComparisonFunc", "MipLODBias",
     "MaxAnisotropy", "MinLOD", "MaxLOD", "BorderColor", "MipFilter"}

SamplerValueExprs ==
    {SamplerVarAccessExpr(i) :
        i \in {"MIN_MAG_MIP_POINT", "COMPARISON_ANISOTROPIC", "WRAP", "MIRROR_ONCE",
               "COMPARISON_LESS", "LINEAR"}}
      \cup {SamplerLiteralExpr("1"), SamplerLiteralExpr("16")}
      \cup {SamplerFunctionCallExpr(v, [i \in 1 .. n |-> "1"]) :
                v \in BOOLEAN, n \in 3 .. 4}
      \cup {SamplerCastExpr("16")}
      \cup {SamplerInitializerExpr([i \in 1 .. n |-> "1"]) : n \in 3 .. 4}

SamplerValues == {SamplerValue(n, v) : n \in SamplerValueNames, v \in SamplerValueExprs}

\* VisitSamplerDecl up to its loop
VisitSamplerDecl ==
    /\ mpc = "start"
    /\ samplerSymbols' = samplerSymbols \cup {samplerIdent}
    /\ IF statistics_ # "null"
       THEN /\ mpc' = "values"
            /\ samplerState' = DefaultSamplerState
       ELSE /\ mpc' = "done"
            /\ UNCHANGED samplerState
    /\ UNCHANGED <<statistics_, samplerIdent, samplerValue, valuesAnalysed,
                   samplerBefore, samplerStates, mreports, nonSamplerVars>>

\* one pass of the loop over ast->samplerValues
VisitSamplerDeclValue ==
    /\ mpc = "values"
    /\ valuesAnalysed < MaxSamplerValues
    /\ \E value \in SamplerValues :
          LET s == AnalyzeSamplerValue(value, SamplerAnalysis(samplerState, mreports))
          IN  /\ samplerValue' = value
              /\ samplerBefore' = SamplerAnalysis(samplerState, mreports)
              /\ samplerState' = s.state
              /\ mreports' = s.reports
    /\ valuesAnalysed' = valuesAnalysed + 1
    /\ UNCHANGED <<mpc, statistics_, samplerIdent, samplerSymbols, samplerStates,
                   nonSamplerVars>>

\* behind the loop: the state is stored under the identifier of the sampler
VisitSamplerDeclStore ==
    /\ mpc = "values"
    /\ samplerStates' =
           {e \in samplerStates : e.ident # samplerIdent}
               \cup {[ident |-> samplerIdent, state |-> samplerState]}
    /\ mpc' = "done"
    /\ UNCHANGED <<statistics_, samplerIdent, samplerValue, valuesAnalysed,
                   samplerState, samplerBefore, samplerSymbols, mreports,
                   nonSamplerVars>>

NextSampler ==
    \/ VisitSamplerDecl
    \/ VisitSamplerDeclValue
    \/ VisitSamplerDeclStore

InitSampler ==
    /\ mpc = "start"
    /\ statistics_ \in {"null", "statistics"}
    /\ samplerIdent \in {"s0", "s1"}
    /\ samplerValue = nullptr
    /\ valuesAnalysed = 0
    /\ samplerState = nullptr
    /\ samplerBefore = nullptr
    /\ samplerSymbols = {}
    /\ samplerStates \in
           IF statistics_ = "null" THEN {{}}
           ELSE {{}, {[ident |-> "s0",
                       state |-> [DefaultSamplerState EXCEPT !.filter = "Anisotropic"]]}}
    /\ mreports = <<>>
    /\ NonSamplerIdle

SpecSampler == InitSampler /\ [][NextSampler]_vars

(***************************************************************************)
(* CodeWriter: the calls of its interface, in any order.  A writer is      *)
(* w == [optionsStack, openLine, out]; out is what was written to the      *)
(* stream, piece by piece.                                                 *)
(***************************************************************************)
MaxWriterCalls == 5    \* calls on one CodeWriter
MaxOptionsDepth == 2   \* options pushed at the same time

\* CodeWriter::Options(enableNewLine, enableIndent), and Options()
WriterOptions(enableNewLine, enableIndent) ==
    [enableNewLine |-> enableNewLine, enableIndent |-> enableIndent]

DefaultWriterOptions == WriterOptions(TRUE, TRUE)

CodeWriter(optionsStack, openLine, out) ==
    [optionsStack |-> optionsStack, openLine |-> openLine, out |-> out]

\* Out() << ...
Out(w, piece) == [w EXCEPT !.out = Append(@, piece)]

CurrentOptions(w) ==
    IF w.optionsStack # <<>> THEN w.optionsStack[Len(w.optionsStack)]
    ELSE DefaultWriterOptions

PushOptions(w, options) == [w EXCEPT !.optionsStack = Append(@, options)]

PopOptions(w) ==
    IF w.optionsStack # <<>>
    THEN [w EXCEPT !.optionsStack = SubSeq(@, 1, Len(@) - 1)]
    ELSE w

BeginLine(w) ==
    IF ~w.openLine
    THEN IF CurrentOptions(w).enableIndent
         THEN Out([w EXCEPT !.openLine = TRUE], "FullIndent")
         ELSE [w EXCEPT !.openLine = TRUE]
    ELSE w

\* (first with the line closed whether the new line is written or not)
EndLine_AlwaysClosed(w) ==
    IF w.openLine
    THEN IF CurrentOptions(w).enableNewLine
         THEN Out([w EXCEPT !.openLine = FALSE], "\n")
         ELSE [w EXCEPT !.openLine = FALSE]
    ELSE w
EndLine(w) ==
    IF w.openLine /\ CurrentOptions(w).enableNewLine
    THEN Out([w EXCEPT !.openLine = FALSE], "\n")
    ELSE w

Write(w, text) == Out(w, text)

WriteLine(w, text) == EndLine(Write(BeginLine(w), text))

Writer == CodeWriter(optionsStack_, openLine_, wout)

\* a call returned: the writer behind it, and what it was called on
WriterCalled(name, w) ==
    /\ optionsStack_' = w.optionsStack
    /\ openLine_' = w.openLine
    /\ wout' = w.out
    /\ wcall' = name
    /\ wbefore' = Writer
    /\ wcalls' = wcalls + 1
    /\ UNCHANGED nonWriterVars

CallPushOptions ==
    /\ wcalls < MaxWriterCalls
    /\ Len(optionsStack_) < MaxOptionsDepth
    /\ \E n, i \in BOOLEAN :
          WriterCalled("PushOptions", PushOptions(Writer, WriterOptions(n, i)))

CallPopOptions ==
    /\ wcalls < MaxWriterCalls
    /\ WriterCalled("PopOptions", PopOptions(Writer))

CallBeginLine ==
    /\ wcalls < MaxWriterCalls
    /\ WriterCalled("BeginLine", BeginLine(Writer))

CallEndLine ==
    /\ wcalls < MaxWriterCalls
    /\ WriterCalled("EndLine", EndLine(Writer))

CallWrite ==
    /\ wcalls < MaxWriterCalls
    /\ WriterCalled("Write", Write(Writer, "text"))

CallWriteLine ==
    /\ wcalls < MaxWriterCalls
    /\ WriterCalled("WriteLine", WriteLine(Writer, "text"))

NextWriter ==
    \/ CallPushOptions
    \/ CallPopOptions
    \/ CallBeginLine
    \/ CallEndLine
    \/ CallWrite
    \/ CallWriteLine

InitWriter ==
    /\ optionsStack_ = <<>>
    /\ openLine_ = FALSE
    /\ wout = <<>>
    /\ wcall = "constructed"
    /\ wbefore = nullptr
    /\ wcalls = 0
    /\ NonWriterIdle

SpecWriter == InitWriter /\ [][NextWriter]_vars

(***************************************************************************)
(* ConstExprEvaluator: one expression is evaluated on a stack of variants  *)
(***************************************************************************)
MaxConstIndices == 2   \* array indices behind one expression

\* Variant: a boolean or an integer; Variant() has no type
VariantBool(b) == [type |-> "Bool", bool |-> b, int |-> 0]

VariantInt(i) == [type |-> "Int", bool |-> FALSE, int |-> i]

VariantUndefined == [type |-> "Undefined", bool |-> FALSE, int |-> 0]

VariantToBool(v) == IF v.type = "Bool" THEN v.bool ELSE v.int # 0

VariantToInt(v) == IF v.type = "Bool" THEN (IF v.bool THEN 1 ELSE 0) ELSE v.int

\* the expressions of the evaluator
ConstLiteralExpr(dataType, value) ==
    [type |-> "LiteralExpr", dataType |-> dataType, value |-> value]

ConstVarAccessExpr(ident) == [type |-> "VarAccessExpr", ident |-> ident]

ConstNullExpr == [type |-> "NullExpr"]

ConstTypeNameExpr == [type |-> "TypeNameExpr"]

ConstFunctionCallExpr == [type |-> "FunctionCallExpr"]

ConstInitializerExpr == [type |-> "InitializerExpr"]

ConstListExpr(firstExpr, nextExpr) ==
    [type |-> "ListExpr", firstExpr |-> firstExpr, nextExpr |-> nextExpr]

ConstTernaryExpr(condExpr, thenExpr, elseExpr) ==
    [type |-> "TernaryExpr", condExpr |-> condExpr, thenExpr |-> thenExpr,
     elseExpr |-> elseExpr]

ConstBinaryExpr(lhsExpr, op, rhsExpr) ==
    [type |-> "BinaryExpr", lhsExpr |-> lhsExpr, op |-> op, rhsExpr |-> rhsExpr]

ConstUnaryExpr(op, subExpr) == [type |-> "UnaryExpr", op |-> op, expr |-> subExpr]

ConstPostUnaryExpr(subExpr, op) ==
    [type |-> "PostUnaryExpr", op |-> op, expr |-> subExpr]

ConstBracketExpr(subExpr) == [type |-> "BracketExpr", expr |-> subExpr]

ConstCastExpr(typeExpr, subExpr) ==
    [type |-> "CastExpr", typeExpr |-> typeExpr, expr |-> subExpr]

\* expr.ident[arrayIndices]
ConstSuffixExpr(subExpr, arrayIndices) ==
    [type |-> "SuffixExpr", expr |-> subExpr, arrayIndices |-> arrayIndices]

\* expr[arrayIndices]
ConstArrayAccessExpr(subExpr, arrayIndices) ==
    [type |-> "ArrayAccessExpr", expr |-> subExpr, arrayIndices |-> arrayIndices]

\* the evaluator: its stack, the exception in flight, the variable accesses
\* handed to the callback, the expressions whose visit began and the visits
\* that returned
Evaluator(stack, thrown, accessed, entered, visits) ==
    [variantStack_ |-> stack, thrown |-> thrown, accessed |-> accessed,
     entered |-> entered, visits |-> visits]

NewEvaluator == Evaluator(<<>>, "", <<>>, <<>>, <<>>)

IllegalExpr(e, exprName) == [e EXCEPT !.thrown = "illegal " \o exprName]

Push(e, v) == [e EXCEPT !.variantStack_ = Append(@, v)]

\* the evaluator after Pop, and the variant Pop returns
Pop(e) ==
    IF e.variantStack_ = <<>>
    THEN [e EXCEPT !.thrown = "stack underflow in expression evaluator"]
    ELSE [e EXCEPT !.variantStack_ = SubSeq(@, 1, Len(@) - 1)]

Popped(e) ==
    IF e.variantStack_ = <<>> THEN VariantUndefined
    ELSE e.variantStack_[Len(e.variantStack_)]

\* a statement of a visit procedure runs unless an exception is in flight
Unless(e, next(_)) == IF e.thrown # "" THEN e ELSE next(e)

\* the callbacks: none given, one that returns the value of the variable,
\* and the one of the parser and the analyzer that throws the expression
CallbackValue(ident) == IF ident = "x" THEN VariantInt(1) ELSE VariantBool(FALSE)

\* (first with no variant behind a missing callback)
onVarAccessCallback_NoDefault(callback, e, ast) ==
    LET called == [e EXCEPT !.accessed = Append(@, ast.ident)] IN
    CASE callback = "none"   -> Push(called, VariantUndefined)
      [] callback = "value"  -> Push(called, CallbackValue(ast.ident))
      [] callback = "throws" -> [called EXCEPT !.thrown = "VarAccessExpr"]

onVarAccessCallback_(callback, e, ast) ==
    LET called == [e EXCEPT !.accessed = Append(@, ast.ident)] IN
    CASE callback = "none"   -> Push(called, VariantInt(0))
      [] callback = "value"  -> Push(called, CallbackValue(ast.ident))
      [] callback = "throws" -> [called EXCEPT !.thrown = "VarAccessExpr"]

VisitLiteralExpr(e, ast) ==
    CASE ast.dataType = "Bool" ->
             IF ast.value = "true" THEN Push(e, VariantBool(TRUE))
             ELSE IF ast.value = "false" THEN Push(e, VariantBool(FALSE))
             ELSE IllegalExpr(e, "boolean literal value")
      [] ast.dataType = "Int" -> Push(e, VariantInt(FromString(Characters(ast.value))))
      [] OTHER -> IllegalExpr(e, "literal type")

BinaryOperation(e, op, lhs, rhs) ==
    CASE op = "Undefined"  -> IllegalExpr(e, "binary operator")
      [] op = "LogicalAnd" -> Push(e, VariantBool(VariantToBool(lhs) /\ VariantToBool(rhs)))
      [] op = "LogicalOr"  -> Push(e, VariantBool(VariantToBool(lhs) \/ VariantToBool(rhs)))
      [] op = "Add"        -> Push(e, VariantInt(VariantToInt(lhs) + VariantToInt(rhs)))
      [] op = "Equal"      -> Push(e, VariantBool(VariantToInt(lhs) = VariantToInt(rhs)))

UnaryOperation(e, op, rhs) ==
    CASE op = "Undefined"  -> IllegalExpr(e, "unary operator")
      [] op = "LogicalNot" -> Push(e, VariantBool(~VariantToBool(rhs)))
      [] op = "Nop"        -> Push(e, rhs)

PostUnaryOperation(e, op, lhs) ==
    IF op \in {"Inc", "Dec"} THEN Push(e, lhs)
    ELSE IllegalExpr(e, "unary operator")

\* Visit(ast): the visit procedure of the expression, and the visit noted
\* when it returns
RECURSIVE Visit(_, _, _)
RECURSIVE VisitList(_, _, _)
RECURSIVE VisitProc(_, _, _)
Entered(e, ast) == [e EXCEPT !.entered = Append(@, ast)]

Visited(before, ast, after) ==
    IF after.thrown # "" THEN after
    ELSE [after EXCEPT !.visits = Append(@, [expr |-> ast,
              before |-> Len(before.variantStack_),
              after |-> Len(after.variantStack_),
              top |-> Popped(after)])]

\* (first with both branches visited, as Visitor::VisitTernaryExpr does)
VisitTernaryExpr_BothBranches(cb, e, ast) ==
    Unless(Visit(cb, e, ast.condExpr), LAMBDA e1 :
    Unless(Pop(e1), LAMBDA e2 :
    Unless(Visit(cb, e2, ast.thenExpr), LAMBDA e3 :
    Unless(Visit(cb, e3, ast.elseExpr), LAMBDA e4 :
        IF VariantToBool(Popped(e1)) THEN Pop(e4)
        ELSE Push(Pop(Pop(e4)), Popped(e4))))))

VisitTernaryExpr(cb, e, ast) ==
    Unless(Visit(cb, e, ast.condExpr), LAMBDA e1 :
    Unless(Pop(e1), LAMBDA e2 :
        IF VariantToBool(Popped(e1)) THEN Visit(cb, e2, ast.thenExpr)
        ELSE Visit(cb, e2, ast.elseExpr)))

VisitBinaryExpr(cb, e, ast) ==
    Unless(Visit(cb, e, ast.lhsExpr), LAMBDA e1 :
    Unless(Visit(cb, e1, ast.rhsExpr), LAMBDA e2 :
    Unless(Pop(e2), LAMBDA e3 :
    Unless(Pop(e3), LAMBDA e4 :
        BinaryOperation(e4, ast.op, Popped(e3), Popped(e2))))))

VisitUnaryExpr(cb, e, ast) ==
    Unless(Visit(cb, e, ast.expr), LAMBDA e1 :
    Unless(Pop(e1), LAMBDA e2 : UnaryOperation(e2, ast.op, Popped(e1))))

VisitPostUnaryExpr(cb, e, ast) ==
    Unless(Visit(cb, e, ast.expr), LAMBDA e1 :
    Unless(Pop(e1), LAMBDA e2 : PostUnaryOperation(e2, ast.op, Popped(e1))))

\* Visitor::VisitSuffixExpr and Visitor::VisitVarIdent: the evaluator has no
\* visit procedure of its own for them
VisitSuffixExpr(cb, e, ast) ==
    Unless(Visit(cb, e, ast.expr), LAMBDA e1 : VisitList(cb, e1, ast.arrayIndices))

\* Visitor::VisitArrayAccessExpr
VisitArrayAccessExpr(cb, e, ast) ==
    Unless(Visit(cb, e, ast.expr), LAMBDA e1 : VisitList(cb, e1, ast.arrayIndices))

VisitList(cb, e, asts) ==
    IF asts = <<>> THEN e
    ELSE Unless(Visit(cb, e, Head(asts)), LAMBDA e1 : VisitList(cb, e1, Tail(asts)))

VisitProc(cb, e, ast) ==
    CASE ast.type = "NullExpr"         -> IllegalExpr(e, "dynamic array dimension")
      [] ast.type = "ListExpr"         -> Visit(cb, e, ast.firstExpr)
      [] ast.type = "LiteralExpr"      -> VisitLiteralExpr(e, ast)
      [] ast.type = "TypeNameExpr"     -> IllegalExpr(e, "type specifier")
      [] ast.type = "TernaryExpr"      -> VisitTernaryExpr(cb, e, ast)
      [] ast.type = "BinaryExpr"       -> VisitBinaryExpr(cb, e, ast)
      [] ast.type = "UnaryExpr"        -> VisitUnaryExpr(cb, e, ast)
      [] ast.type = "PostUnaryExpr"    -> VisitPostUnaryExpr(cb, e, ast)
      [] ast.type = "FunctionCallExpr" -> IllegalExpr(e, "function call")
      [] ast.type = "BracketExpr"      -> Visit(cb, e, ast.expr)
      [] ast.type = "SuffixExpr"       -> VisitSuffixExpr(cb, e, ast)
      [] ast.type = "ArrayAccessExpr"  -> VisitArrayAccessExpr(cb, e, ast)
      [] ast.type = "CastExpr"         -> Visit(cb, e, ast.expr)
      [] ast.type = "VarAccessExpr"    -> onVarAccessCallback_(cb, e, ast)
      [] ast.type = "InitializerExpr"  -> IllegalExpr(e, "initializer list")

Visit(cb, e, ast) == Visited(e, ast, VisitProc(cb, Entered(e, ast), ast))

\* EvaluateExpr: the evaluator it leaves and the variant it returns
Evaluation(e, result) == [evaluator |-> e, result |-> result]

EvaluateExpr(ast, callback) ==
    LET behind == Visit(callback, NewEvaluator, ast)
        popped == Unless(behind, LAMBDA e : Pop(e))
    IN  Evaluation(popped,
            IF popped.thrown # "" THEN VariantUndefined ELSE Popped(behind))

Evaluating == epc = "start"

Evaluated(caller, callback, result, reports) ==
    /\ epc' = "done"
    /\ ecaller' = caller
    /\ ecallback' = callback
    /\ evaluation' = result
    /\ ereports' = reports
    /\ UNCHANGED <<constExpr, nonEvaluatorVars>>

\* EvaluateExpr called without a callback
EvaluateExprNoCallback ==
    /\ Evaluating
    /\ Evaluated("EvaluateExpr", "none", EvaluateExpr(constExpr, "none"), <<>>)

\* EvaluateExpr called with a callback that returns the value of the variable
EvaluateExprCallback ==
    /\ Evaluating
    /\ Evaluated("EvaluateExpr", "value", EvaluateExpr(constExpr, "value"), <<>>)

\* HLSLParser::ParseAndEvaluateConstExpr behind ParseExpr
ParseAndEvaluateConstExpr ==
    /\ Evaluating
    /\ LET r == EvaluateExpr(constExpr, "throws") IN
       Evaluated("ParseAndEvaluateConstExpr", "throws", r,
           IF r.evaluator.thrown = "" THEN <<>>
           ELSE IF r.evaluator.thrown = "VarAccessExpr"
           THEN <<Report("Error", "expected constant expression")>>
           ELSE <<Report("Error", r.evaluator.thrown)>>)

\* HLSLAnalyzer::EvaluateConstExpr
EvaluateConstExpr ==
    /\ Evaluating
    /\ Evaluated("EvaluateConstExpr", "throws", EvaluateExpr(constExpr, "throws"), <<>>)

NextEvaluator ==
    \/ EvaluateExprNoCallback
    \/ EvaluateExprCallback
    \/ ParseAndEvaluateConstExpr
    \/ EvaluateConstExpr

\* the expressions evaluated
ConstLeaves ==
    {ConstLiteralExpr("Bool", "true"), ConstLiteralExpr("Bool", "false"),
     ConstLiteralExpr("Int", "0"), ConstLiteralExpr("Int", "2"),
     ConstLiteralExpr("String", "v"),
     ConstVarAccessExpr("x"), ConstVarAccessExpr("y"),
     ConstNullExpr, ConstTypeNameExpr, ConstFunctionCallExpr, ConstInitializerExpr}

ConstIndices ==
    {ConstLiteralExpr("Int", "1"), ConstVarAccessExpr("x"), ConstFunctionCallExpr}

ConstIndexLists(n) == UNION {[1 .. k -> ConstIndices] : k \in n .. MaxConstIndices}

ConstPrimaries ==
    {ConstLiteralExpr("Bool", "true"), ConstLiteralExpr("Int", "0"),
     ConstVarAccessExpr("x"), ConstVarAccessExpr("y"), ConstFunctionCallExpr}

ConstOperands ==
    ConstLeaves
    \cup {ConstBracketExpr(a) : a \in ConstPrimaries}
    \cup {ConstCastExpr(ConstTypeNameExpr, a) : a \in ConstPrimaries}
    \cup {ConstListExpr(a, b) : a \in ConstPrimaries,
                                 b \in {ConstFunctionCallExpr, ConstVarAccessExpr("y")}}
    \cup {ConstUnaryExpr(op, a) : op \in {"Undefined", "LogicalNot", "Nop"},
                                  a \in ConstPrimaries}
    \cup {ConstPostUnaryExpr(a, op) : op \in {"Inc", "LogicalNot"},
                                       a \in {ConstLiteralExpr("Int", "0"),
                                               ConstVarAccessExpr("x")}}
    \cup {ConstSuffixExpr(a, is) : a \in {ConstLiteralExpr("Int", "2")},
                                   is \in ConstIndexLists(0)}
    \cup {ConstArrayAccessExpr(ConstBracketExpr(a), is) :
              a \in {ConstLiteralExpr("Int", "2")}, is \in ConstIndexLists(1)}

ConstExprs ==
    ConstOperands
    \cup {ConstTernaryExpr(c, t, e) : c \in ConstPrimaries, t, e \in ConstLeaves}
    \cup {ConstBinaryExpr(l, op, r) :
              op \in {"Undefined", "LogicalAnd", "LogicalOr", "Add", "Equal"},
              l, r \in ConstOperands}

InitEvaluator ==
    /\ epc = "start"
    /\ constExpr \in ConstExprs
    /\ ecaller = "idle"
    /\ ecallback = "idle"
    /\ evaluation = nullptr
    /\ ereports = <<>>
    /\ NonEvaluatorIdle

SpecEvaluator == InitEvaluator /\ [][NextEvaluator]_vars

(***************************************************************************)
(* HLSLParser::AcceptIt on the token stream of the scanner: the parser     *)
(* accepts token after token, whatever parse function asks for it.         *)
(***************************************************************************)
MaxDirectiveTokens == 6   \* tokens between the first one and the end of the stream

\* the scanner in front of its current token, and the Report in flight
Scanner(toks, thrown) == [toks |-> toks, thrown |-> thrown]

\* Parser::AcceptIt: the scanner moves to the next token
ScannerAcceptIt(s) == [s EXCEPT !.toks = ParserAcceptIt(@)]

ThrowError(s, msg) == [s EXCEPT !.thrown = msg]

ErrorUnexpected(s, type) == ThrowError(s, "unexpected token, expected " \o type)

\* ProcessDirective for "line"
ProcessDirectiveLine(s) ==
    Unless(IF Is(s.toks, "IntLiteral") THEN ScannerAcceptIt(s)
           ELSE ErrorUnexpected(s, "IntLiteral"), LAMBDA s1 :
        IF Is(s1.toks, "StringLiteral") THEN ScannerAcceptIt(s1)
        ELSE ErrorUnexpected(s1, "StringLiteral"))

ProcessDirectiveOf(s, ident) ==
    IF ident = "line" THEN ProcessDirectiveLine(s)
    ELSE ThrowError(s, "only '#line'-directives are allowed after pre-processing")

\* HLSLParser::AcceptIt: the directive is accepted by AcceptIt itself, and
\* then processed
RECURSIVE HLSLParserAcceptIt(_), WhileDirective(_)
HLSLParserAcceptIt(s) == WhileDirective(ScannerAcceptIt(s))

WhileDirective(s) ==
    IF Is(s.toks, "Directive")
    THEN Unless(HLSLParserAcceptIt(s), LAMBDA s1 :
         Unless(ProcessDirectiveOf(s1, Tkn(s.toks).spell), LAMBDA s2 :
             WhileDirective(s2)))
    ELSE s

\* a parse function accepts the current token
CallAcceptIt ==
    /\ lpc \in {"start", "parsing"}
    /\ ~Is(scanned, "EndOfStream")
    /\ LET s == HLSLParserAcceptIt(Scanner(scanned, "")) IN
       /\ lcall' = "AcceptIt"
       /\ lbefore' = scanned
       /\ scanned' = s.toks
       /\ lpc' = IF s.thrown # "" THEN "failed" ELSE "parsing"
       /\ lreports' = IF s.thrown # "" THEN Append(lreports, Report("Error", s.thrown))
                      ELSE lreports
    /\ UNCHANGED nonDirectiveVars

\* a parse function does not find the token it expects
CallErrorUnexpected ==
    /\ lpc \in {"start", "parsing"}
    /\ lcall' = "ErrorUnexpected"
    /\ lbefore' = scanned
    /\ lpc' = "failed"
    /\ lreports' = Append(lreports, Report("Error", "unexpected token"))
    /\ UNCHANGED <<scanned, nonDirectiveVars>>

NextDirective ==
    \/ CallAcceptIt
    \/ CallErrorUnexpected

tkLineDirective == T("Directive", "line")

tkPragmaDirective == T("Directive", "pragma")

tkIntLiteral == T("IntLiteral", "1")

tkStringLiteral == T("StringLiteral", "f")

DirectiveToks ==
    UNION {[1 .. n -> {tkLineDirective, tkPragmaDirective, tkIntLiteral,
                       tkStringLiteral}] : n \in 0 .. MaxDirectiveTokens}

InitDirective ==
    /\ lpc = "start"
    /\ scanned \in {<<f>> \o t \o <<tkEndOfStream>> :
                       f \in {tkSemicolon, tkIntLiteral}, t \in DirectiveToks}
    /\ lcall = "idle"
    /\ lbefore = <<>>
    /\ lreports = <<>>
    /\ NonDirectiveIdle

SpecDirective == InitDirective /\ [][NextDirective]_vars

(***************************************************************************)
(* HLSLAnalyzer: the statements of function bodies.  The program analysed  *)
(* is a list of global statements, a structure S or functions without      *)
(* parameters that return void; the analyzer visits one global statement   *)
(* per step.  A node is named by its path, the places of its ancestors and *)
(* of itself among their children, and what the analyzer writes into a     *)
(* node (ast->intrinsic, ast->flags, symbolRef, aliasName) is kept by path  *)
(* or by identifier.  The type denoters derived by GetTypeDenoterFrom are  *)
(* not kept.                                                               *)
(***************************************************************************)
MakeLiteralExpr == [type |-> "LiteralExpr"]

MakeVarAccessExpr(ident) == [type |-> "VarAccessExpr", ident |-> ident]

MakeFunctionCallExpr(ident, arguments) ==
    [type |-> "FunctionCallExpr",
     call |-> [type |-> "FunctionCall", ident |-> ident, arguments |-> arguments]]

MakeBinaryExpr(lhsExpr, rhsExpr) ==
    [type |-> "BinaryExpr", lhsExpr |-> lhsExpr, rhsExpr |-> rhsExpr]

MakeBracketExpr(e) == [type |-> "BracketExpr", expr |-> e]

MakeExprStmnt(e) == [type |-> "ExprStmnt", expr |-> e]

MakeReturnStmnt(e) == [type |-> "ReturnStmnt", expr |-> e]

\* a declaration statement of one variable; varType names a structure, or
\* is empty for a base type
MakeVarDeclStmnt(varType, ident) ==
    [type |-> "VarDeclStmnt", varType |-> varType, ident |-> ident]

MakeCodeBlock(stmnts) == [type |-> "CodeBlock", stmnts |-> stmnts]

MakeCodeBlockStmnt(stmnts) ==
    [type |-> "CodeBlockStmnt", codeBlock |-> MakeCodeBlock(stmnts)]

MakeForLoopStmnt(initSmnt, condition, iteration, bodyStmnt) ==
    [type |-> "ForLoopStmnt", initSmnt |-> initSmnt, condition |-> condition,
     iteration |-> iteration, bodyStmnt |-> bodyStmnt]

MakeWhileLoopStmnt(condition, bodyStmnt) ==
    [type |-> "WhileLoopStmnt", condition |-> condition, bodyStmnt |-> bodyStmnt]

MakeDoWhileLoopStmnt(bodyStmnt, condition) ==
    [type |-> "DoWhileLoopStmnt", bodyStmnt |-> bodyStmnt, condition |-> condition]

MakeElseStmnt(bodyStmnt) == [type |-> "ElseStmnt", bodyStmnt |-> bodyStmnt]

MakeIfStmnt(condition, bodyStmnt, elseStmnt) ==
    [type |-> "IfStmnt", condition |-> condition, bodyStmnt |-> bodyStmnt,
     elseStmnt |-> elseStmnt]

MakeSwitchCase(e, stmnts) == [type |-> "SwitchCase", expr |-> e, stmnts |-> stmnts]

MakeSwitchStmnt(selector, cases) ==
    [type |-> "SwitchStmnt", selector |-> selector, cases |-> cases]

MakeStructDeclStmnt(ident, members) ==
    [type |-> "StructDeclStmnt", ident |-> ident, members |-> members]

MakeFunctionDecl(ident, stmnts) ==
    [type |-> "FunctionDecl", ident |-> ident, codeBlock |-> MakeCodeBlock(stmnts)]

\* a symbol of the symbol table: the declaration a name is registered for,
\* and for a variable the structure its varType refers to (varType->symbolRef)
Symbol(type, ident, varType) == [type |-> type, ident |-> ident, varType |-> varType]

\* The analyzer while it visits: the scopes of the symbol table, innermost
\* last, the log of the scopes opened and closed, the decorations, the
\* reports, InsideEntryPoint(), and whether the analyzer has crashed.  wild is
\* what a read through a null expression yields in this run.
Decorating ==
    [scopes |-> scopeStack, log |-> scopeLog, intrinsics |-> callIntrinsics,
     flags |-> callFlags, refs |-> symbolRefs, aliasNames |-> aliasNames,
     declFlags |-> declFlags, entryPointRef |-> bodyEntryPointRef,
     reports |-> breports, insideEntryPoint |-> FALSE, crashed |-> FALSE,
     wild |-> wildRead]

\* nothing is done once the analyzer has crashed
Running(s, t) == IF s.crashed THEN s ELSE t

BodyError(s, msg) ==
    Running(s, [s EXCEPT !.reports = Append(@, Report("Error", msg))])

BodyWarning(s, msg) ==
    Running(s, [s EXCEPT !.reports = Append(@, Report("Warning", msg))])

\* Analyzer::OpenScope and CloseScope for the node at path
AnalyzerOpenScope(s, type, path) ==
    Running(s, [s EXCEPT !.scopes = Append(@, {}),
                         !.log = Append(@, [op |-> "OpenScope", type |-> type,
                                            path |-> path])])

AnalyzerCloseScope(s, type, path) ==
    Running(s, [s EXCEPT !.scopes = IF Len(@) > 0 THEN SubSeq(@, 1, Len(@) - 1) ELSE @,
                         !.log = Append(@, [op |-> "CloseScope", type |-> type,
                                            path |-> path])])

\* Analyzer::Register: the symbol enters the innermost scope
BodyRegister(s, symbol) ==
    Running(s,
        IF \E x \in s.scopes[Len(s.scopes)] : x.ident = symbol.ident
        THEN BodyError(s, "redefinition")
        ELSE [s EXCEPT !.scopes[Len(s.scopes)] = @ \cup {symbol}])

\* Analyzer::Fetch: the scopes are searched from the innermost outwards
RECURSIVE FetchFrom(_, _, _)
FetchFrom(scopes, d, ident) ==
    IF d = 0
    THEN nullptr
    ELSE IF \E x \in scopes[d] : x.ident = ident
    THEN CHOOSE x \in scopes[d] : x.ident = ident
    ELSE FetchFrom(scopes, d - 1, ident)

BodyFetch(s, ident) == FetchFrom(s.scopes, Len(s.scopes), ident)

\* WarningOnNullStmnt
WarningOnNullStmnt(s, ast, stmntTypeName) ==
    IF ast.type = "NullStmnt"
    THEN BodyWarning(s, "<" \o stmntTypeName \o "> statement with empty body")
    ELSE s

\* AnalyzeVarIdent of an identifier without components
BodyAnalyzeVarIdent(s, ident, path) ==
    Running(s,
        IF BodyFetch(s, ident) # nullptr
        THEN IF BodyFetch(s, ident).type \in {"VarDecl", "StructDecl"}
             THEN [s EXCEPT !.refs = @ \cup {<<path, BodyFetch(s, ident)>>}]
             ELSE BodyError([s EXCEPT !.refs = @ \cup {<<path, BodyFetch(s, ident)>>}],
                            "invalid symbol reference to variable identifier")
        ELSE BodyError(s, "undeclared identifier"))

\* varIdent->symbolRef of the VarAccessExpr at path
SymbolRefAt(s, path) ==
    IF \E r \in s.refs : r[1] = path
    THEN (CHOOSE r \in s.refs : r[1] = path)[2]
    ELSE nullptr

\* ast->intrinsic of the FunctionCall at path
IntrinsicAt(intrinsics, path) ==
    IF \E r \in intrinsics : r[1] = path
    THEN (CHOOSE r \in intrinsics : r[1] = path)[2]
    ELSE Intr("Undefined", 0)

\* AnalyzeFunctionCallIntrinsic and AnalyzeFunctionCallStandard for the call
\* of a function without prefix
BodyFunctionCallIntrinsic(s, ast, path, intr) ==
    Running(s,
        [(IF stored_.shaderModel < intr.minShaderModel
          THEN BodyWarning(s, "intrinsic requires shader model")
          ELSE s)
         EXCEPT !.intrinsics =
                    @ \cup {<<path, ConvertIntrinsic(intr.intrinsic, Len(ast.arguments), 1)>>}])

BodyFunctionCallStandard(s, ast, path) ==
    Running(s,
        IF BodyFetch(s, ast.ident).type = "FunctionDecl"
        THEN s
        ELSE BodyError(s, "undeclared identifier"))

\* (first with every clip call that is visited flagged)
AnalyzeIntrinsicWrapperInlining_Always(s, path) ==
    Running(s, [s EXCEPT !.flags = @ \cup {<<path, "canInlineIntrinsicWrapper">>}])
AnalyzeIntrinsicWrapperInlining(s, path) ==
    Running(s,
        IF IntrinsicAt(s.intrinsics, path) = Intr("Clip", 0)
        THEN [s EXCEPT !.flags = @ \cup {<<path, "canInlineIntrinsicWrapper">>}]
        ELSE s)

\* ast->expr->As<VarAccessExpr>() in VisitReturnStmnt: the type of the
\* expression decides, and for a missing expression the read goes through a
\* null pointer and yields whatever the run finds there
ReturnExprRead(s, ast) ==
    IF ast.expr.type = "nullptr" THEN s.wild ELSE ast.expr.type

\* the entry-point part of VisitReturnStmnt for a variable access whose
\* symbolRef is symbol, named ident in the return statement
AnalyzeReturnOf(s, symbol, ident) ==
    Running(s,
        IF symbol.type = "VarDecl" /\ symbol.varType # ""
        THEN [s EXCEPT !.aliasNames = @ \cup {<<symbol.varType, ident>>},
                       !.declFlags = @ \cup {<<symbol.ident, "disableCodeGen">>}]
        ELSE s)

RECURSIVE VisitAST(_, _, _)
RECURSIVE VisitASTs(_, _, _, _)

VisitCodeBlock(s, ast, path) ==
    AnalyzerCloseScope(
        VisitASTs(AnalyzerOpenScope(s, "CodeBlock", path), ast.stmnts, path, 0),
        "CodeBlock", path)

VisitBodyFunctionCall(s, ast, path) ==
    IF ast.ident \in DOMAIN HLSLIntrinsics
    THEN BodyFunctionCallIntrinsic(VisitASTs(s, ast.arguments, path, 0), ast, path,
                                   HLSLIntrinsics[ast.ident])
    ELSE BodyFunctionCallStandard(VisitASTs(s, ast.arguments, path, 0), ast, path)

\* Visitor::VisitVarDeclStmnt, with VisitVarType and VisitVarDecl
VisitBodyVarDeclStmnt(s, ast, path) ==
    BodyRegister(s, Symbol("VarDecl", ast.ident,
                           IF ast.varType # "" /\ BodyFetch(s, ast.varType).type = "StructDecl"
                           THEN ast.varType ELSE ""))

\* (first without the scope of the loop's body closed)
VisitForLoopStmnt_BodyLeftOpen(s, ast, path) ==
    AnalyzerCloseScope(
        VisitAST(
            AnalyzerOpenScope(
                VisitAST(VisitAST(VisitAST(
                    AnalyzerOpenScope(WarningOnNullStmnt(s, ast.bodyStmnt, "for loop"),
                                      "ForLoopStmnt", path),
                    ast.initSmnt, Append(path, 1)),
                    ast.condition, Append(path, 2)),
                    ast.iteration, Append(path, 3)),
                "ForLoopStmnt", path),
            ast.bodyStmnt, Append(path, 4)),
        "ForLoopStmnt", path)
VisitForLoopStmnt(s, ast, path) ==
    AnalyzerCloseScope(
        AnalyzerCloseScope(
            VisitAST(
                AnalyzerOpenScope(
                    VisitAST(VisitAST(VisitAST(
                        AnalyzerOpenScope(WarningOnNullStmnt(s, ast.bodyStmnt, "for loop"),
                                          "ForLoopStmnt", path),
                        ast.initSmnt, Append(path, 1)),
                        ast.condition, Append(path, 2)),
                        ast.iteration, Append(path, 3)),
                    "ForLoopStmnt", path),
                ast.bodyStmnt, Append(path, 4)),
            "ForLoopStmnt", path),
        "ForLoopStmnt", path)

VisitWhileLoopStmnt(s, ast, path) ==
    AnalyzerCloseScope(
        VisitAST(VisitAST(
            AnalyzerOpenScope(WarningOnNullStmnt(s, ast.bodyStmnt, "while loop"),
                              "WhileLoopStmnt", path),
            ast.condition, Append(path, 1)),
            ast.bodyStmnt, Append(path, 2)),
        "WhileLoopStmnt", path)

VisitDoWhileLoopStmnt(s, ast, path) ==
    AnalyzerCloseScope(
        VisitAST(VisitAST(
            AnalyzerOpenScope(WarningOnNullStmnt(s, ast.bodyStmnt, "do-while loop"),
                              "DoWhileLoopStmnt", path),
            ast.bodyStmnt, Append(path, 1)),
            ast.condition, Append(path, 2)),
        "DoWhileLoopStmnt", path)

VisitIfStmnt(s, ast, path) ==
    VisitAST(
        AnalyzerCloseScope(
            VisitAST(VisitAST(
                AnalyzerOpenScope(WarningOnNullStmnt(s, ast.bodyStmnt, "if"),
                                  "IfStmnt", path),
                ast.condition, Append(path, 1)),
                ast.bodyStmnt, Append(path, 2)),
            "IfStmnt", path),
        ast.elseStmnt, Append(path, 3))

VisitElseStmnt(s, ast, path) ==
    AnalyzerCloseScope(
        VisitAST(
            AnalyzerOpenScope(WarningOnNullStmnt(s, ast.bodyStmnt, "else"),
                              "ElseStmnt", path),
            ast.bodyStmnt, Append(path, 1)),
        "ElseStmnt", path)

VisitSwitchStmnt(s, ast, path) ==
    AnalyzerCloseScope(
        VisitASTs(
            VisitAST(AnalyzerOpenScope(s, "SwitchStmnt", path),
                     ast.selector, Append(path, 1)),
            ast.cases, path, 1),
        "SwitchStmnt", path)

\* Visitor::VisitSwitchCase
VisitSwitchCase(s, ast, path) ==
    VisitASTs(VisitAST(s, ast.expr, Append(path, 1)), ast.stmnts, path, 1)

VisitExprStmnt(s, ast, path) ==
    IF ~stored_.preferWrappers /\ ast.expr.type = "FunctionCallExpr"
    THEN AnalyzeIntrinsicWrapperInlining(VisitAST(s, ast.expr, Append(path, 1)),
                                         Append(Append(path, 1), 1))
    ELSE VisitAST(s, ast.expr, Append(path, 1))

\* the part of VisitReturnStmnt inside the entry point, behind the visit
ReturnStmntInsideEntryPoint(s, ast, path) ==
    Running(s,
        CASE ReturnExprRead(s, ast) = "crash" -> [s EXCEPT !.crashed = TRUE]
          [] ReturnExprRead(s, ast) = "VarAccessExpr" ->
                IF ast.expr.type = "nullptr"
                THEN AnalyzeReturnOf(s, BodyFetch(s, "o"), "")
                ELSE AnalyzeReturnOf(s, SymbolRefAt(s, Append(path, 1)), ast.expr.ident)
          [] OTHER -> s)

VisitReturnStmnt(s, ast, path) ==
    IF s.insideEntryPoint
    THEN ReturnStmntInsideEntryPoint(VisitAST(s, ast.expr, Append(path, 1)), ast, path)
    ELSE VisitAST(s, ast.expr, Append(path, 1))

\* Visitor::Visit: a null node is not visited
VisitAST(s, ast, path) ==
    IF s.crashed \/ ast.type = "nullptr"
    THEN s
    ELSE CASE ast.type = "CodeBlockStmnt" -> VisitCodeBlock(s, ast.codeBlock, Append(path, 1))
           [] ast.type = "CodeBlock" -> VisitCodeBlock(s, ast, path)
           [] ast.type = "ForLoopStmnt" -> VisitForLoopStmnt(s, ast, path)
           [] ast.type = "WhileLoopStmnt" -> VisitWhileLoopStmnt(s, ast, path)
           [] ast.type = "DoWhileLoopStmnt" -> VisitDoWhileLoopStmnt(s, ast, path)
           [] ast.type = "IfStmnt" -> VisitIfStmnt(s, ast, path)
           [] ast.type = "ElseStmnt" -> VisitElseStmnt(s, ast, path)
           [] ast.type = "SwitchStmnt" -> VisitSwitchStmnt(s, ast, path)
           [] ast.type = "SwitchCase" -> VisitSwitchCase(s, ast, path)
           [] ast.type = "ExprStmnt" -> VisitExprStmnt(s, ast, path)
           [] ast.type = "ReturnStmnt" -> VisitReturnStmnt(s, ast, path)
           [] ast.type = "VarDeclStmnt" -> VisitBodyVarDeclStmnt(s, ast, path)
           [] ast.type = "FunctionCallExpr" -> VisitAST(s, ast.call, Append(path, 1))
           [] ast.type = "FunctionCall" -> VisitBodyFunctionCall(s, ast, path)
           [] ast.type = "VarAccessExpr" -> BodyAnalyzeVarIdent(s, ast.ident, path)
           [] ast.type = "BinaryExpr" ->
                  VisitAST(VisitAST(s, ast.lhsExpr, Append(path, 1)),
                           ast.rhsExpr, Append(path, 2))
           [] ast.type = "BracketExpr" -> VisitAST(s, ast.expr, Append(path, 1))
           [] OTHER -> s

\* Visitor::Visit of a list: the nodes one after the other; the node at place
\* k of the list has the place k + offset among the children
VisitASTs(s, asts, path, offset) ==
    IF asts = <<>>
    THEN s
    ELSE VisitAST(VisitASTs(s, SubSeq(asts, 1, Len(asts) - 1), path, offset),
                  asts[Len(asts)], Append(path, Len(asts) + offset))

\* what a visit leaves behind
Decorated(s) ==
    /\ scopeStack' = s.scopes
    /\ scopeLog' = s.log
    /\ callIntrinsics' = s.intrinsics
    /\ callFlags' = s.flags
    /\ symbolRefs' = s.refs
    /\ aliasNames' = s.aliasNames
    /\ declFlags' = s.declFlags
    /\ bodyEntryPointRef' = s.entryPointRef
    /\ breports' = s.reports
    /\ bpc' = IF s.crashed THEN "crashed" ELSE "program"
    /\ bodyVisited' = bodyVisited + 1
    /\ UNCHANGED <<stored_, bodyProgram, wildRead, nonBodyVars>>

AtGlobalStmnt(type) ==
    /\ bpc = "program"
    /\ bodyVisited < Len(bodyProgram)
    /\ bodyProgram[bodyVisited + 1].type = type

\* VisitStructDecl of a structure that is neither nested nor derived: the
\* members are registered in the scope of the structure
EmptyStructWarned(s, ast) ==
    IF Len(ast.members) = 0 THEN BodyWarning(s, "is completely empty") ELSE s

VisitBodyStructDecl(s, ast, path) ==
    EmptyStructWarned(
        AnalyzerCloseScope(
            VisitASTs(AnalyzerOpenScope(BodyRegister(s, Symbol("StructDecl", ast.ident, "")),
                                        "StructDecl", path),
                      ast.members, path, 0),
            "StructDecl", path),
        ast)

\* PushFunctionDeclLevel and PopFunctionDeclLevel
PushFunctionDeclLevel(s, isEntryPoint) ==
    Running(s, [s EXCEPT !.insideEntryPoint = isEntryPoint])

PopFunctionDeclLevel(s) == Running(s, [s EXCEPT !.insideEntryPoint = FALSE])

\* AnalyzeEntryPoint of a function without parameters that returns void
BodyAnalyzeEntryPoint(s, ast, isEntryPoint) ==
    IF isEntryPoint THEN Running(s, [s EXCEPT !.entryPointRef = ast.ident]) ELSE s

\* VisitFunctionDecl of a function without attributes and parameters
VisitBodyFunctionDecl(s, ast, path) ==
    AnalyzerCloseScope(
        PopFunctionDeclLevel(
            VisitAST(
                PushFunctionDeclLevel(
                    BodyAnalyzeEntryPoint(
                        AnalyzerOpenScope(
                            BodyRegister(s, Symbol("FunctionDecl", ast.ident, "")),
                            "FunctionDecl", path),
                        ast, ast.ident = stored_.entryPoint),
                    ast.ident = stored_.entryPoint),
                ast.codeBlock, Append(path, 1))),
        "FunctionDecl", path)

VisitStructDeclStmnt ==
    /\ AtGlobalStmnt("StructDeclStmnt")
    /\ Decorated(VisitBodyStructDecl(Decorating, bodyProgram[bodyVisited + 1],
                                     <<bodyVisited + 1>>))

VisitFunctionDeclStmnt ==
    /\ AtGlobalStmnt("FunctionDecl")
    /\ Decorated(VisitBodyFunctionDecl(Decorating, bodyProgram[bodyVisited + 1],
                                       <<bodyVisited + 1>>))

\* VisitProgram returns, and with it DecorateASTPrimary
DecorateASTReturn ==
    /\ bpc = "program"
    /\ bodyVisited = Len(bodyProgram)
    /\ bpc' = "done"
    /\ UNCHANGED <<stored_, bodyProgram, bodyVisited, scopeStack, scopeLog, callIntrinsics,
                   callFlags, symbolRefs, aliasNames, declFlags, bodyEntryPointRef,
                   breports, wildRead, nonBodyVars>>

NextBody ==
    \/ VisitStructDeclStmnt
    \/ VisitFunctionDeclStmnt
    \/ DecorateASTReturn

\* The statements analysed
clipCall == MakeFunctionCallExpr("clip", <<MakeLiteralExpr>>)

CalledExprs ==
    {clipCall,
     MakeFunctionCallExpr("f", <<MakeLiteralExpr>>),
     MakeFunctionCallExpr("clip", <<clipCall>>),
     MakeFunctionCallExpr("f", <<clipCall>>),
     MakeBinaryExpr(clipCall, MakeLiteralExpr),
     MakeBracketExpr(clipCall)}

ProbeStmnts ==
    {MakeExprStmnt(MakeVarAccessExpr(x)) : x \in {"i", "v"}}
        \cup {MakeReturnStmnt(e) : e \in {nullptr, MakeVarAccessExpr("o")}}

LeafStmnts ==
    {MakeExprStmnt(e) : e \in CalledExprs}
        \cup {MakeReturnStmnt(e) : e \in {nullptr, clipCall, MakeVarAccessExpr("o")}}
        \cup {[type |-> "NullStmnt"]}

LeadingStmnts ==
    {MakeVarDeclStmnt("", "v"), MakeVarDeclStmnt("S", "o"), MakeExprStmnt(clipCall)}

InnerStmnts ==
    {[type |-> "NullStmnt"], MakeExprStmnt(clipCall), MakeReturnStmnt(nullptr),
     MakeCodeBlockStmnt(<<MakeVarDeclStmnt("", "i")>>)}

Conditions == {MakeLiteralExpr, clipCall}

CompoundStmnts ==
    {MakeCodeBlockStmnt(<<x>>) : x \in InnerStmnts \cup {MakeVarDeclStmnt("", "i")}}
        \cup {MakeForLoopStmnt(i, MakeLiteralExpr, c, x) :
                 i \in {MakeVarDeclStmnt("", "i"), MakeExprStmnt(clipCall)},
                 c \in Conditions, x \in InnerStmnts}
        \cup {MakeWhileLoopStmnt(c, x) : c \in Conditions, x \in InnerStmnts}
        \cup {MakeDoWhileLoopStmnt(x, MakeLiteralExpr) : x \in InnerStmnts}
        \cup {MakeIfStmnt(MakeLiteralExpr, x, e) :
                 x \in InnerStmnts,
                 e \in {nullptr, MakeElseStmnt(MakeExprStmnt(clipCall)),
                        MakeElseStmnt(MakeCodeBlockStmnt(<<MakeVarDeclStmnt("", "i")>>))}}
        \cup {MakeSwitchStmnt(MakeLiteralExpr, <<MakeSwitchCase(MakeLiteralExpr, <<x>>)>>) :
                 x \in InnerStmnts \cup {MakeVarDeclStmnt("", "i")}}
        \cup {MakeForLoopStmnt(MakeVarDeclStmnt("", "i"), MakeLiteralExpr, MakeLiteralExpr,
                  MakeCodeBlockStmnt(<<MakeWhileLoopStmnt(MakeLiteralExpr,
                      MakeIfStmnt(MakeLiteralExpr, x, MakeElseStmnt(x)))>>)) :
                 x \in InnerStmnts}

RECURSIVE LeadingLists(_)
LeadingLists(n) ==
    IF n = 0
    THEN {<<>>}
    ELSE LeadingLists(n - 1)
             \cup {Append(l, x) : l \in {m \in LeadingLists(n - 1) : Len(m) = n - 1},
                                  x \in LeadingStmnts}

\* a body: leading statements, one statement, and a statement behind it
FunctionBodies ==
    {l \o <<x>> \o p : l \in LeadingLists(MaxLeadingStmnts),
                       x \in LeafStmnts \cup CompoundStmnts,
                       p \in {<<>>} \cup {<<q>> : q \in ProbeStmnts}}

bodyStructS == MakeStructDeclStmnt("S", <<MakeVarDeclStmnt("", "m")>>)

BodyPrograms ==
    {<<bodyStructS, MakeFunctionDecl(ident, b)>> :
        ident \in {"main", "f"}, b \in FunctionBodies}
        \cup {<<MakeFunctionDecl("f", <<MakeReturnStmnt(nullptr)>>),
                MakeFunctionDecl("main", b)>> :
                 b \in {c \in FunctionBodies : Len(c) = 1}}

\* DecorateASTPrimary has stored its parameters; the symbol table holds its
\* global scope
InitBody ==
    /\ bpc = "program"
    /\ stored_ \in [entryPoint : {"main"}, shaderModel : {3},
                    preferWrappers : BOOLEAN]
    /\ bodyProgram \in BodyPrograms
    /\ wildRead \in {"crash", "nullptr", "VarAccessExpr"}
    /\ bodyVisited = 0
    /\ scopeStack = <<{}>>
    /\ scopeLog = <<>>
    /\ callIntrinsics = {}
    /\ callFlags = {}
    /\ symbolRefs = {}
    /\ aliasNames = {}
    /\ declFlags = {}
    /\ bodyEntryPointRef = ""
    /\ breports = <<>>
    /\ NonBodyIdle

SpecBody == InitBody /\ [][NextBody]_vars

(***************************************************************************)
(* Properties of the parser                                                *)
(***************************************************************************)
\* the leftmost primary expression of an expression
RECURSIVE LeftMost(_)
LeftMost(expr) ==
    IF expr.type = "BinaryExpr" THEN LeftMost(expr.lhsExpr)
    ELSE IF expr.type = "PostUnaryExpr" THEN LeftMost(expr.expr)
    ELSE IF expr.type = "ListExpr" THEN LeftMost(expr.firstExpr)
    ELSE expr

\* the expression that array accesses and suffixes are attached to
RECURSIVE Base(_)
Base(expr) ==
    IF expr.type \in {"SuffixExpr", "ArrayAccessExpr"} THEN Base(expr.expr) ELSE expr

InOpenScope(ident, tbl) == \E i \in DOMAIN tbl : ident \in tbl[i]

PreDefined == {"DWORD", "FLOAT", "VECTOR", "MATRIX", "STRING"}

AliasOf(ident) == [type |-> "AliasTypeDenoter", ident |-> ident]

TypeNameOf(ident) == [type |-> "TypeNameExpr", typeDenoter |-> AliasOf(ident)]

SingleIdent(ident) ==
    [type |-> "VarIdent", ident |-> ident, arrayIndices |-> <<>>, next |-> nullptr]

VarAccessOf(varIdent) ==
    [type |-> "VarAccessExpr", varIdent |-> varIdent, assignOp |-> "Undefined",
     assignExpr |-> nullptr]

LiteralOne == [type |-> "LiteralExpr", dataType |-> "IntLiteral", value |-> "1"]

BracketOf(expr) == [type |-> "BracketExpr", expr |-> expr]

\* the statement parsed last, or the one that failed, was read inside a code
\* block and starts with the given token type
StmntInBlockStarts(ty) ==
    /\ stmnt # nullptr \/ pc = "failed"
    /\ Len(stmntTable) >= 2
    /\ stmntTokens # <<>>
    /\ stmntTokens[1].type = ty

\* ... and starts with ( I )
StmntStartsBracketIdent ==
    /\ StmntInBlockStarts("LBracket")
    /\ Len(stmntTokens) >= 3
    /\ stmntTokens[2].type = "Ident"
    /\ stmntTokens[3].type = "RBracket"

\* the statement parsed last, or the one that failed, has these tokens in front
StmntTokensAre(toks) ==
    /\ Len(stmntTokens) >= Len(toks)
    /\ SubSeq(stmntTokens, 1, Len(toks)) = toks

BehindBracketIdent == SubSeq(stmntTokens, 4, Len(stmntTokens))

C1Cast(ident, r, operand) ==
    /\ r.ok <=> operand.ok
    /\ r.ok => /\ r.ast = [type |-> "CastExpr", typeExpr |-> TypeNameOf(ident),
                           expr |-> operand.ast]
               /\ r.rest = operand.rest

C1Bracket(ident, r) ==
    r.ok => Base(r.ast) = BracketOf(VarAccessOf(SingleIdent(ident)))

C1Parsed(r) ==
    stmnt # nullptr =>
        /\ stmnt.type = "ExprStmnt"
        /\ r.ok
        /\ LeftMost(stmnt.expr) = r.ast

C1Example ==
    StmntTokensAre(castProbe) /\ Len(stmntTable) >= 2 =>
        /\ pc # "failed"
        /\ stmnt = [type |-> "ExprStmnt",
                    expr |-> IF InOpenScope("X", stmntTable)
                             THEN [type |-> "CastExpr", typeExpr |-> TypeNameOf("X"),
                                   expr |-> [type |-> "UnaryExpr", op |-> "-",
                                             expr |-> BracketOf(LiteralOne)]]
                             ELSE [type |-> "BinaryExpr",
                                   lhsExpr |-> BracketOf(VarAccessOf(SingleIdent("X"))),
                                   op |-> "-", rhsExpr |-> BracketOf(LiteralOne)]]

\* C1: a statement that starts with ( I ), I a single identifier, starts with
\* a cast to the alias I whose operand is exactly the one primary expression
\* behind the bracket if I is in an open scope of the type-name table, and
\* with the bracket expression of the variable I otherwise; ( X ) - ( 1 ) is
\* the cast of -(1) with X registered and a subtraction without.
C1_CastIffRegisteredTypeName ==
    /\ StmntStartsBracketIdent =>
        /\ C1Parsed(Parse("BracketOrCastExpr", <<stmntTable, stmntTokens>>))
        /\ IF InOpenScope(stmntTokens[2].spell, stmntTable)
           THEN C1Cast(stmntTokens[2].spell,
                       Parse("BracketOrCastExpr", <<stmntTable, stmntTokens>>),
                       Parse("PrimaryExpr", <<stmntTable, BehindBracketIdent>>))
           ELSE C1Bracket(stmntTokens[2].spell,
                          Parse("BracketOrCastExpr", <<stmntTable, stmntTokens>>))
    /\ C1Example

C1_Witness ==
    /\ StmntTokensAre(castProbe)
    /\ stmnt.type = "ExprStmnt"
    /\ stmnt.expr.type = "CastExpr"
    /\ stmnt.expr.expr.type = "UnaryExpr"

\* C2: while the program is parsed there is one scope per open activation of
\* ParseProgram and ParseCodeBlock, and it holds the type names declared by
\* typedef and struct in that activation (the outermost also the pre-defined
\* aliases); the table is empty when the program is done; ( X ) expr is a
\* cast exactly if X was declared in an activation still open.
C2_TypeNameRegisteredWhileScopeOpen ==
    /\ pc = "program" =>
        /\ Len(typeNameSymbolTable_) = Len(frames)
        /\ Len(declared) = Len(frames)
        /\ \A i \in 1..Len(frames) :
               typeNameSymbolTable_[i] =
                   declared[i] \cup (IF i = 1 THEN PreDefined ELSE {})
    /\ pc = "done" => typeNameSymbolTable_ = <<>>
    /\ StmntStartsBracketIdent /\ stmnt # nullptr /\ pc = "program"
           /\ Len(declared) = Len(stmntTable) =>
        (LeftMost(stmnt.expr).type = "CastExpr"
            <=> stmntTokens[2].spell \in
                    PreDefined \cup UNION {declared[i] : i \in 1..Len(declared)})

C2_Witness ==
    /\ StmntStartsBracketIdent
    /\ pc = "program"
    /\ stmnt.type = "ExprStmnt"
    /\ Len(declared) = Len(stmntTable)
    /\ stmntTokens[2].spell \in everDeclared
    /\ \A i \in 1..Len(declared) : stmntTokens[2].spell \notin declared[i]
    /\ LeftMost(stmnt.expr).type = "BracketExpr"

IsSingleIdentAccess(expr) ==
    /\ expr.type = "VarAccessExpr"
    /\ expr.varIdent.next = nullptr
    /\ expr.varIdent.arrayIndices = <<>>
    /\ expr.assignExpr = nullptr

C3Holds(inner, r) ==
    inner.ok /\ r.ok =>
        IF r.ast.type = "CastExpr"
        THEN inner.ast.type = "TypeNameExpr" \/ IsSingleIdentAccess(inner.ast)
        ELSE Base(r.ast) = BracketOf(inner.ast)

\* C3: a bracket expression becomes a cast only if the inner expression is a
\* type name or the access of a single identifier without array indices and
\* without an assignment; otherwise the inner expression is kept as it is.
C3_RewriteOnlySingleIdentifier ==
    StmntInBlockStarts("LBracket") =>
        C3Holds(Parse("Expr", <<stmntTable, Tail(stmntTokens), TRUE, nullptr>>),
                Parse("BracketOrCastExpr", <<stmntTable, stmntTokens>>))

C4Chosen(v) ==
    IF Is(v.rest, "LBracket")
    THEN stmnt # nullptr =>
             /\ stmnt.type = "ExprStmnt"
             /\ Base(LeftMost(stmnt.expr)).type = "FunctionCallExpr"
             /\ Base(LeftMost(stmnt.expr)).call.varIdent = v.ast
    ELSE IF Is(v.rest, "AssignOp")
    THEN stmnt # nullptr =>
             /\ stmnt.type = "ExprStmnt"
             /\ stmnt.expr.type = "VarAccessExpr"
             /\ stmnt.expr.varIdent = v.ast
             /\ stmnt.expr.assignOp # "Undefined"
             /\ stmnt.expr.assignExpr # nullptr
    ELSE IF Tkn(v.rest) \in {tkInc, tkDec}
    THEN stmnt # nullptr =>
             /\ stmnt.type = "ExprStmnt"
             /\ LeftMost(stmnt.expr) = VarAccessOf(v.ast)
             /\ stmnt.expr.type \in {"PostUnaryExpr", "ListExpr"}
    ELSE IF v.ast.next # nullptr THEN stmnt = nullptr
    ELSE stmnt # nullptr =>
             /\ stmnt.type = "VarDeclStmnt"
             /\ stmnt.varType.structDecl = nullptr
             /\ stmnt.varType.typeDenoter =
                    IF v.ast.arrayIndices = <<>> THEN AliasOf(v.ast.ident)
                    ELSE [type |-> "ArrayTypeDenoter",
                          baseTypeDenoter |-> AliasOf(v.ast.ident),
                          arrayDims |-> v.ast.arrayIndices]

C4Holds(v) == IF v.ok THEN C4Chosen(v) ELSE stmnt = nullptr

\* C4: a statement in a code block that starts with an identifier is, by the
\* token behind its VarIdent: a function call expression statement for (, an
\* assignment expression statement for an assignment operator, a post-unary
\* expression statement for ++ and --, and otherwise a variable declaration
\* of the alias type named by the identifier (an array of it with indices),
\* which a dotted identifier never is: that statement fails.
C4_IdentifierStatementChoice ==
    StmntInBlockStarts("Ident") => C4Holds(Parse("VarIdent", <<stmntTable, stmntTokens>>))

C4_Witness ==
    /\ StmntInBlockStarts("Ident")
    /\ stmnt.type = "VarDeclStmnt"
    /\ stmnt.varType.typeDenoter.type = "ArrayTypeDenoter"
    /\ stmnt.varType.typeDenoter.baseTypeDenoter = AliasOf(stmntTokens[1].spell)

(***************************************************************************)
(* Properties of CompileShader                                             *)
(***************************************************************************)
ExpectedStages(options) ==
    <<"preprocess", "parse", "analyze">>
        \o (IF options.optimize THEN <<"optimize">> ELSE <<>>)
        \o <<"generate">>

IsPrefix(s, t) == Len(s) <= Len(t) /\ s = SubSeq(t, 1, Len(s))

Thrown == outcome \notin {"none", "true", "false"}

HasError(reports, msg) ==
    \E i \in DOMAIN reports : reports[i] = Report("Error", msg)

FailureMessage(stage) ==
    CASE stage = "preprocess" -> "preprocessing input code failed"
      [] stage = "parse"      -> "parsing input code failed"
      [] stage = "analyze"    -> "analyzing input code failed"
      [] stage = "generate"   -> "generating output code failed"
      [] OTHER                -> "no stage failed"

RejectedVersions == {"GLSL110", "GLSL120"}

PreprocessedOnly ==
    /\ cpc = "done"
    /\ call.options.preprocessOnly
    /\ stagesRun # <<>>
    /\ failedStage = "none"

\* C5: the stages started are, in this order, preprocess, parse, analyze,
\* optimize (only when the option is set) and generate; once a stage has failed
\* it stays the last stage started, the primary function has returned false,
\* and CompileShader returns false
C5_StagesInOrderAndShortCircuit ==
    cpc # "idle" =>
        /\ IsPrefix(stagesRun, ExpectedStages(call.options))
        /\ failedStage # "none" =>
              /\ stagesRun # <<>>
              /\ stagesRun[Len(stagesRun)] = failedStage
              /\ cpc \in {"return", "done"}
              /\ primaryResult = "false"
              /\ cpc = "done" => outcome = "false"

C5_Witness ==
    /\ cpc = "done"
    /\ call.options.optimize
    /\ failedStage = "analyze"
    /\ stagesRun = <<"preprocess", "parse", "analyze">>
    /\ outcome = "false"

\* C6: a call with valid streams that asks for GLSL 1.10 or GLSL 1.20 ends by
\* returning false, with an Error report on the log sink if there is one, with
\* no stage started and nothing written; with any other version the pipeline
\* is started
C6_RejectedVersionReturnsFalse ==
    (cpc = "done" /\ call.input # "null" /\ outputDescCopy # "null") =>
        IF call.shaderVersion \in RejectedVersions
        THEN /\ outcome = "false"
             /\ call.log # "null" =>
                   \E i \in DOMAIN logReports : logReports[i].type = "Error"
             /\ stagesRun = <<>>
             /\ callerOut = <<>>
             /\ dummyOutputStream = <<>>
        ELSE stagesRun # <<>>

\* C7: a call that has ended has returned true, or it has returned false and
\* then the log sink, if there is one, holds the Error report that names the
\* failed stage, and without a log sink nothing has been reported
C7_ReturnsTrueOrFalseWithError ==
    cpc = "done" =>
        \/ outcome = "true"
        \/ /\ outcome = "false"
           /\ call.log # "null" => HasError(logReports, FailureMessage(failedStage))
           /\ call.log = "null" => logReports = <<>>

\* C8 as stated: after a successful preprocessing with preprocessOnly the
\* caller's output stream holds the preprocessed source, the call has returned
\* true and no other stage was started, whatever the other options are
C8_PreprocessOnlyCopiesToCallerStream ==
    PreprocessedOnly =>
        /\ callerOut = <<"processedInput">>
        /\ outcome = "true"
        /\ stagesRun = <<"preprocess">>

\* C8 amended: after a successful preprocessing with preprocessOnly the
\* preprocessed source has been copied to the stream the pipeline writes to,
\* which is the caller's stream without validateOnly and the internal dummy
\* stream with validateOnly (the caller's stream is then left untouched); the
\* call has returned true and no other stage was started, whatever the other
\* options are
C8_PreprocessOnlyCopiesToPipelineStream ==
    PreprocessedOnly =>
        /\ IF call.options.validateOnly
           THEN dummyOutputStream = <<"processedInput">> /\ callerOut = <<>>
           ELSE callerOut = <<"processedInput">> /\ dummyOutputStream = <<>>
        /\ outcome = "true"
        /\ stagesRun = <<"preprocess">>

C8_Witness ==
    /\ PreprocessedOnly
    /\ call.options.validateOnly
    /\ call.options.optimize
    /\ call.options.showAST
    /\ dummyOutputStream = <<"processedInput">>
    /\ callerOut = <<>>
    /\ outcome = "true"

\* C9: with validateOnly the caller's output stream is never written; a null
\* caller output stream does not stop the call (with an input stream and an
\* accepted version the pipeline starts); what CompileShader returns is what
\* the primary function returned; and a successful compile that is not
\* preprocessOnly has run every stage and has put the generated code into the
\* dummy stream
C9_ValidateOnlyDiscardsOutput ==
    (cpc # "idle" /\ call.options.validateOnly) =>
        /\ callerOut = <<>>
        /\ (cpc = "done" /\ call.input # "null"
              /\ call.shaderVersion \notin RejectedVersions) => stagesRun # <<>>
        /\ (cpc = "done" /\ ~Thrown) => outcome = primaryResult
        /\ (cpc = "done" /\ outcome = "true" /\ ~call.options.preprocessOnly) =>
              /\ stagesRun = ExpectedStages(call.options)
              /\ dummyOutputStream = <<"GLSL">>

C9_Witness ==
    /\ cpc = "done"
    /\ call.options.validateOnly
    /\ call.output = "null"
    /\ outcome = "true"
    /\ stagesRun = ExpectedStages(call.options)
    /\ dummyOutputStream = <<"GLSL">>
    /\ callerOut = <<>>

(***************************************************************************)
(* Properties of the intrinsic overload table                              *)
(***************************************************************************)
\* the argument counts that upgrade a base intrinsic
UpgradeCounts(name) ==
    CASE name = "AsUInt"                                  -> {3}
      [] name \in {"Tex1D", "Tex2D", "Tex3D", "TexCube"}  -> {4}
      [] name = "Texture_Load"                            -> {2, 3}
      [] name = "Texture_Sample"                          -> {3, 4, 5}
      [] name = "Texture_SampleBias"                      -> {4, 5, 6}
      [] name = "Texture_SampleCmp"                       -> {4, 5, 6}
      [] name = "Texture_SampleGrad"                      -> {5, 6, 7}
      [] name = "Texture_SampleLevel"                     -> {4, 5}
      [] OTHER                                            -> {}

RowMatches(i) ==
    /\ intrinsicConversions[i].standardIntrinsic = icall.intr.intrinsic
    /\ intrinsicConversions[i].numArgs = icall.arguments

\* C10: after the analysis the call carries, for a listed base intrinsic and
\* argument count, the enum id of that intrinsic for that argument count, which
\* is the upgraded id of the first table row that matches; for every other pair
\* it carries the base id of the intrinsic table entry
C10_IntrinsicUpgradedByArgumentCount ==
    ipc = "done" =>
        /\ IF icall.arguments \in UpgradeCounts(icall.intr.intrinsic.name)
           THEN icall.intrinsic = Intr(icall.intr.intrinsic.name, icall.arguments)
           ELSE icall.intrinsic = icall.intr.intrinsic
        /\ \A i \in DOMAIN intrinsicConversions :
              (RowMatches(i) /\ \A j \in 1 .. (i - 1) : ~RowMatches(j)) =>
                  icall.intrinsic = intrinsicConversions[i].overloadedIntrinsic

C10_Witness ==
    /\ ipc = "done"
    /\ icall.intr.intrinsic = Intr("Texture_Load", 1)
    /\ icall.arguments = 3
    /\ icall.intrinsic = Intr("Texture_Load", 3)

(***************************************************************************)
(* Properties of the analysis of declarations and expressions              *)
(***************************************************************************)
AnalysedCall == apc = "done" /\ analysedExpr.type = "FunctionCall"

CallName == analysedExpr.varIdent[Len(analysedExpr.varIdent)].ident

IsMemberCall == Len(analysedExpr.varIdent) > 1

RecordedIntrinsic == analysedExpr.intrinsic # Intr("Undefined", 0)

IsTextureMethodCall ==
    /\ IsMemberCall
    /\ CallName \in DOMAIN HLSLIntrinsics
    /\ IsTextureIntrinsic(HLSLIntrinsics[CallName].intrinsic)

PrefixIsTexture == analysedExpr.varIdent[1].symbolRef.type = "TextureDecl"

ReportedErrors == {k \in DOMAIN areports : areports[k].type = "Error"}

\* C11: an analysed function call carries an intrinsic if and only if its call
\* name (the trailing component, else the bare name) is in the intrinsic table
\* and, when it is a texture-object method call, its prefix resolves to a
\* TextureDecl
C11_IntrinsicIffNameAndTexturePrefix ==
    AnalysedCall =>
        (RecordedIntrinsic <=>
            /\ CallName \in DOMAIN HLSLIntrinsics
            /\ IsTextureMethodCall => PrefixIsTexture)

\* what VisitFunctionCall does: the table decides alone, whatever the prefix is
C11_IntrinsicIffNameInTable ==
    AnalysedCall => (RecordedIntrinsic <=> CallName \in DOMAIN HLSLIntrinsics)

C11_Witness ==
    /\ AnalysedCall
    /\ IsTextureMethodCall
    /\ analysedExpr.varIdent[1].symbolRef.type = "VarDecl"
    /\ analysedExpr.intrinsic.name = "Texture_Sample"
    /\ ReportedErrors = {}

\* the declarations visited so far whose semantic the parser gave as
\* SV_Position, each with the semantic the analyzer recorded
PositionDecls ==
    {<<parsedStmnts[k].semantic, globalStmnts[k].semantic>> :
        k \in {j \in 1 .. visited : /\ parsedStmnts[j].type = "VarDecl"
                                    /\ parsedStmnts[j].semantic.semantic = "Position"}}
    \cup UNION {{<<parsedStmnts[k].members[m].semantic, globalStmnts[k].members[m].semantic>> :
                    m \in {n \in DOMAIN parsedStmnts[k].members :
                            parsedStmnts[k].members[n].semantic.semantic = "Position"}} :
                k \in {j \in 1 .. visited : parsedStmnts[j].type = "StructDecl"}}

\* the expression has a component that refers to a variable declared with
\* SV_Position
RefersToPosition ==
    /\ analysedExpr.type # "nullptr"
    /\ \E i \in DOMAIN analysedExpr.varIdent :
           /\ analysedExpr.varIdent[i].symbolRef.type = "VarDecl"
           /\ analysedExpr.varIdent[i].symbolRef.semantic.semantic = "Position"

C13_SemanticRecorded ==
    \A d \in PositionDecls :
        d[2] = IF shaderTarget_ = "VertexShader"
               THEN IndexedSemantic("VertexPosition", d[1].index)
               ELSE d[1]

\* C13, as the claim states it: an SV_Position declaration is recorded as
\* VertexPosition with its index for a vertex shader and unchanged for every
\* other stage, and after the analysis the program is flagged as using the
\* fragment coordinate exactly if the shader is a fragment shader with such a
\* declaration
C13_PositionDeclFlagsFragCoord ==
    /\ C13_SemanticRecorded
    /\ apc = "done" =>
          ("isFragCoordUsed" \in programFlags <=>
              shaderTarget_ = "FragmentShader" /\ PositionDecls # {})

\* C13, amended: the semantic is recorded as stated, and the program is flagged
\* exactly if the shader is a fragment shader and an analysed variable
\* identifier refers to a variable declared with SV_Position
C13_PositionRefFlagsFragCoord ==
    /\ C13_SemanticRecorded
    /\ apc = "done" =>
          ("isFragCoordUsed" \in programFlags <=>
              shaderTarget_ = "FragmentShader" /\ RefersToPosition)

C13_Witness ==
    /\ apc = "done"
    /\ shaderTarget_ = "FragmentShader"
    /\ PositionDecls # {}
    /\ RefersToPosition
    /\ "isFragCoordUsed" \in programFlags

C13_WitnessVertex ==
    /\ apc = "done"
    /\ shaderTarget_ = "VertexShader"
    /\ <<IndexedSemantic("Position", 1), IndexedSemantic("VertexPosition", 1)>>
           \in PositionDecls

\* C15: after an analysis without error every component of the analysed
\* VarIdent has its symbolRef set, and no component had its symbolRef assigned
\* more than once
C15_SymbolRefSetExactlyOnce ==
    apc = "done" =>
        \A i \in DOMAIN analysedExpr.varIdent :
            /\ analysedExpr.varIdent[i].assigned <= 1
            /\ ReportedErrors = {} =>
                  /\ analysedExpr.varIdent[i].symbolRef # nullptr
                  /\ analysedExpr.varIdent[i].assigned = 1

C15_Witness ==
    /\ apc = "done"
    /\ analysedExpr.type = "FunctionCall"
    /\ ReportedErrors = {}
    /\ PrefixIsTexture
    /\ analysedExpr.varIdent[1].assigned = 1
    /\ analysedExpr.varIdent[2].ident = "Sample"
    /\ analysedExpr.varIdent[2].symbolRef = nullptr

\* a dotted call whose prefix no declaration of the program names
UndeclaredPrefixCall ==
    /\ apc \in {"done", "crashed"}
    /\ analysedExpr.type = "FunctionCall"
    /\ IsMemberCall
    /\ AnalyzerFetch(analysedExpr.varIdent[1].ident) = nullptr

UndeclaredIdentReported ==
    \E k \in ReportedErrors : areports[k].message = "undeclared identifier"

\* C26: the visit of a dotted function call whose prefix is not declared
\* reports an undeclared identifier and returns without fault, also when the
\* member name is the name of an intrinsic
C26_UndeclaredPrefixNoFault ==
    UndeclaredPrefixCall => (apc = "done" /\ UndeclaredIdentReported)

\* what VisitFunctionCall does: the error is reported in every case, and the
\* visit returns whenever the member name is not in the intrinsic table
C26_UndeclaredPrefixReported ==
    UndeclaredPrefixCall =>
        /\ UndeclaredIdentReported
        /\ analysedExpr.varIdent[1].symbolRef = nullptr
        /\ CallName \notin DOMAIN HLSLIntrinsics => apc = "done"

C26_Witness ==
    /\ UndeclaredPrefixCall
    /\ CallName = "Sample"
    /\ UndeclaredIdentReported
    /\ apc = "crashed"

(***************************************************************************)
(* Properties of the entry-point analysis                                  *)
(***************************************************************************)
FunctionDeclsOf(stmnts) ==
    {k \in DOMAIN stmnts : stmnts[k].type = "FunctionDecl"}

EntryPointDecls ==
    {k \in FunctionDeclsOf(globalStmnts) : "isEntryPoint" \in globalStmnts[k].flags}

\* C12: at most one function declaration carries the isEntryPoint flag, and
\* Program.entryPointRef refers to the declaration that carries it
C12_AtMostOneEntryPoint ==
    /\ Cardinality(EntryPointDecls) <= 1
    /\ EntryPointDecls # {} => EntryPointDecls = {entryPointRef}

C12_Witness ==
    /\ apc = "done"
    /\ Cardinality(EntryPointDecls) = 2
    /\ entryPointRef = 4
    /\ globalStmnts[3].parameters # globalStmnts[4].parameters
    /\ areports = <<>>

AsParsed == [stmnts |-> parsedStmnts]

AsDecorated == [stmnts |-> globalStmnts]

Count(seq, x) == Cardinality({k \in DOMAIN seq : seq[k] = x})

\* how many leaf members below the variable ref are the variable leaf
RECURSIVE LeafCount(_, _)
RECURSIVE MembersLeafCount(_, _, _)
LeafCount(ref, leaf) ==
    IF GetVarDecl(AsParsed, ref).typeDenoter.type = "Struct"
    THEN MembersLeafCount(StructDeclRef(AsParsed, GetVarDecl(AsParsed, ref).typeDenoter), 1, leaf)
    ELSE IF ref = leaf THEN 1 ELSE 0

MembersLeafCount(s, m, leaf) ==
    IF m > Len(parsedStmnts[s].members)
    THEN 0
    ELSE LeafCount(VarDeclRef(s, m), leaf) + MembersLeafCount(s, m + 1, leaf)

RECURSIVE ParametersLeafCount(_, _, _, _)
ParametersLeafCount(f, p, input, leaf) ==
    IF p > Len(parsedStmnts[f].parameters)
    THEN 0
    ELSE (IF (IF input THEN IsInput(parsedStmnts[f].parameters[p])
                       ELSE IsOutput(parsedStmnts[f].parameters[p]))
          THEN LeafCount(VarDeclRef(f, p), leaf)
          ELSE 0)
         + ParametersLeafCount(f, p + 1, input, leaf)

ReturnLeafCount(f, leaf) ==
    IF parsedStmnts[f].returnType.type = "Struct"
    THEN MembersLeafCount(StructDeclRef(AsParsed, parsedStmnts[f].returnType), 1, leaf)
    ELSE 0

VarDeclRefs ==
    UNION {{VarDeclRef(k, v) :
                v \in IF parsedStmnts[k].type = "FunctionDecl"
                      THEN DOMAIN parsedStmnts[k].parameters
                      ELSE DOMAIN parsedStmnts[k].members} :
           k \in {j \in DOMAIN parsedStmnts :
                    parsedStmnts[j].type \in {"FunctionDecl", "StructDecl"}}}

StructOf(typeDenoter) == globalStmnts[StructDeclRef(AsDecorated, typeDenoter)]

\* C14: for an analysed entry point every leaf (a non-struct parameter, or a
\* non-struct member reached through struct parameters and struct members)
\* is in the input semantics once per input parameter it belongs to and then
\* flagged isShaderInput, in the output semantics once per output parameter it
\* belongs to, and once more if it belongs to the struct return type, and then
\* flagged isShaderOutput; the structure of a struct parameter is flagged with
\* the parameter's directions and the structure returned with isShaderOutput
C14_EntryPointInOut ==
    \A f \in EntryPointDecls :
        /\ \A leaf \in VarDeclRefs :
              /\ Count(globalStmnts[f].inputSemantics, leaf)
                    = ParametersLeafCount(f, 1, TRUE, leaf)
              /\ Count(globalStmnts[f].outputSemantics, leaf)
                    = ParametersLeafCount(f, 1, FALSE, leaf) + ReturnLeafCount(f, leaf)
              /\ Count(globalStmnts[f].inputSemantics, leaf) > 0
                    => "isShaderInput" \in GetVarDecl(AsDecorated, leaf).flags
              /\ Count(globalStmnts[f].outputSemantics, leaf) > 0
                    => "isShaderOutput" \in GetVarDecl(AsDecorated, leaf).flags
        /\ \A p \in DOMAIN globalStmnts[f].parameters :
              globalStmnts[f].parameters[p].varDecl.typeDenoter.type = "Struct" =>
                  /\ IsInput(globalStmnts[f].parameters[p]) =>
                        "isShaderInput" \in
                            StructOf(globalStmnts[f].parameters[p].varDecl.typeDenoter).flags
                  /\ IsOutput(globalStmnts[f].parameters[p]) =>
                        "isShaderOutput" \in
                            StructOf(globalStmnts[f].parameters[p].varDecl.typeDenoter).flags
        /\ globalStmnts[f].returnType.type = "Struct" =>
              "isShaderOutput" \in StructOf(globalStmnts[f].returnType).flags

\* main(inout S p) returning S: the members S.m and T.k (through S.n) are
\* inputs once and outputs twice
C14_Witness ==
    /\ apc = "done"
    /\ EntryPointDecls = {3}
    /\ globalStmnts[3].inputSemantics = <<VarDeclRef(2, 1), VarDeclRef(1, 1)>>
    /\ globalStmnts[3].outputSemantics =
           <<VarDeclRef(2, 1), VarDeclRef(1, 1), VarDeclRef(2, 1), VarDeclRef(1, 1)>>
    /\ globalStmnts[2].flags = {"isShaderInput", "isShaderOutput"}
    /\ globalStmnts[1].members[1].flags = {"isShaderInput", "isShaderOutput"}

(***************************************************************************)
(* Properties of the annotations behind a declarator                       *)
(***************************************************************************)
AnnotationsDone == dpc \in {"done", "failed"}

HasPackOffset == \E k \in DOMAIN dsource : dsource[k].kind = "packoffset"

ReportedWith(type, msg) ==
    \E k \in DOMAIN dreports : dreports[k] = Report(type, msg)

ReportedAnnotationErrors == {k \in DOMAIN dreports : dreports[k].type = "Error"}

\* C16: a declarator with a packoffset annotation, other than a uniform
\* buffer itself, is parsed with the error of the invalid scope exactly when
\* it is not a member of a uniform buffer
C16_PackOffsetOnlyInBuffer ==
    (AnnotationsDone /\ dcontext # "Buffer" /\ HasPackOffset)
        => (ReportedWith("Error", ErrPackOffset) <=> dcontext # "BufferMember")

\* a global variable with a pack offset, parsed without any error
C16_Witness ==
    /\ dpc = "done"
    /\ dcontext = "GlobalVar"
    /\ HasPackOffset
    /\ declarator.packOffset # nullptr
    /\ ReportedAnnotationErrors = {}

ProfilePrefixes ==
    {<<"v", "s">>, <<"h", "s">>, <<"d", "s">>, <<"g", "s">>, <<"p", "s">>, <<"c", "s">>}

\* a stage prefix followed by a version: digits, separated by underscores
IsShaderProfile(s) ==
    /\ Len(s) > 2
    /\ SubSeq(s, 1, 2) \in ProfilePrefixes
    /\ \A k \in 3 .. Len(s) : IsDigit(s[k]) \/ s[k] = "_"
    /\ \E k \in 3 .. Len(s) : IsDigit(s[k])

StageOf(s) ==
    CASE SubSeq(s, 1, 2) = <<"v", "s">> -> "VertexShader"
      [] SubSeq(s, 1, 2) = <<"h", "s">> -> "TessellationControlShader"
      [] SubSeq(s, 1, 2) = <<"d", "s">> -> "TessellationEvaluationShader"
      [] SubSeq(s, 1, 2) = <<"g", "s">> -> "GeometryShader"
      [] SubSeq(s, 1, 2) = <<"p", "s">> -> "FragmentShader"
      [] SubSeq(s, 1, 2) = <<"c", "s">> -> "ComputeShader"

RegistersWithProfile == {k \in DOMAIN registers : registers[k].profile # <<>>}

\* C18: a register parsed with a leading profile has the stage of the
\* profile as its target when the identifier is a stage prefix followed by
\* digits; any other identifier leaves the target undefined and is reported
\* with a warning of an unknown shader profile, never with an error
C18_ProfileSetsTargetOrWarns ==
    \A k \in RegistersWithProfile :
        IF IsShaderProfile(registers[k].profile)
        THEN registers[k].shaderTarget = StageOf(registers[k].profile)
        ELSE /\ registers[k].shaderTarget = "Undefined"
             /\ \E r \in DOMAIN dreports :
                    /\ dreports[r].type = "Warning"
                    /\ dreports[r].message = "unknown shader profile"
             /\ ReportedAnnotationErrors = {}

\* a register with the profile xx_5_0, parsed without any report of it
C18_Witness ==
    /\ dpc = "done"
    /\ dcontext = "Buffer"
    /\ \E k \in RegistersWithProfile :
            /\ registers[k].profile = Characters("xx_5_0")
            /\ registers[k].shaderTarget = "Undefined"
    /\ dreports = <<>>

\* the registers with a profile that is one have the stage of the profile
C18_ProfileSetsTarget ==
    \A k \in RegistersWithProfile :
        IsShaderProfile(registers[k].profile)
            => registers[k].shaderTarget = StageOf(registers[k].profile)

(***************************************************************************)
(* Properties of ParseSource: techniques and the result                    *)
(***************************************************************************)
InTechnique == pc \in {"technique", "techniqueAcceptIt", "techniqueBraces"}

ParserReported(type, msg) ==
    \E k \in DOMAIN preports : preports[k] = Report(type, msg)

ParserErrors == {k \in DOMAIN preports : preports[k].type = "Error"}

\* C17: the parser that is skipping a technique comes back to the global
\* statements behind it or fails with an error; it does not scan forever
C17_TechniqueSkipTerminates ==
    InTechnique ~> (pc \in {"program", "failed"})

\* the stream ended before any opening brace: the first loop goes on
C17_Witness ==
    /\ pc = "techniqueAcceptIt"
    /\ Is(tokens, "EndOfStream")
    /\ braceTknStack = <<>>
    /\ ParserReported("Warning", "techniques are ignored")
    /\ ParserErrors = {}

\* behind the first opening brace the skip ends: a stream that ends before
\* the braces balance is an error
C17_BracesLoopTerminates ==
    (pc = "techniqueBraces") ~> (pc \in {"program", "failed"})

C20_WitnessError ==
    /\ pc = "failed"
    /\ ParserReported("Warning", "techniques are ignored")
    /\ ParserErrors # {}
    /\ parseResult = "nullptr"

(***************************************************************************)
(* Properties of the analysis of a sampler's state block                   *)
(***************************************************************************)
SamplerStateFields ==
    {"filter", "addressU", "addressV", "addressW", "comparisonFunc", "mipLODBias",
     "maxAnisotropy", "minLOD", "maxLOD", "borderColor"}

KnownSamplerValueNames ==
    {"Filter", "AddressU", "AddressV", "AddressW", "ComparisonFunc", "MipLODBias",
     "MaxAnisotropy", "MinLOD", "MaxLOD", "BorderColor"}

\* the keys with a table, the keys of a number, and the field of each key
TableNames == {"Filter", "AddressU", "AddressV", "AddressW", "ComparisonFunc"}

NumberNames == {"MipLODBias", "MaxAnisotropy", "MinLOD", "MaxLOD"}

TableOf(name) ==
    CASE name = "Filter" -> FilterValueMap
      [] name \in {"AddressU", "AddressV", "AddressW"} -> TextureAddressModeValueMap
      [] name = "ComparisonFunc" -> ComparisonFuncValueMap

FieldOf(name) ==
    CASE name = "Filter" -> "filter"
      [] name = "AddressU" -> "addressU"
      [] name = "AddressV" -> "addressV"
      [] name = "AddressW" -> "addressW"
      [] name = "ComparisonFunc" -> "comparisonFunc"
      [] name = "MipLODBias" -> "mipLODBias"
      [] name = "MaxAnisotropy" -> "maxAnisotropy"
      [] name = "MinLOD" -> "minLOD"
      [] name = "MaxLOD" -> "maxLOD"
      [] name = "BorderColor" -> "borderColor"

ValueFromTable(v) ==
    /\ v.name \in TableNames
    /\ v.value.type = "VarAccessExpr"
    /\ \E e \in TableOf(v.name) : e[1] = v.value.value

\* a color is a vector of four, a cast of one, or four in braces
ValueIsColor(v) ==
    \/ v.type = "FunctionCallExpr" /\ v.isVector /\ Len(v.arguments) = 4
    \/ v.type = "CastExpr"
    \/ v.type = "InitializerExpr" /\ Len(v.arguments) = 4

\* a known key with a value of its kind
ValueOfKey(v) ==
    \/ ValueFromTable(v)
    \/ v.name \in NumberNames /\ v.value.type = "LiteralExpr"
    \/ v.name = "BorderColor" /\ ValueIsColor(v.value)

\* a call or braces that are no color, given for the border color
BorderColorInvalid(v) ==
    /\ v.name = "BorderColor"
    /\ v.value.type \in {"FunctionCallExpr", "InitializerExpr"}
    /\ ~ValueIsColor(v.value)

SamplerValueAnalysed == mpc \in {"values", "done"} /\ valuesAnalysed > 0

StoredSamplerStates == {e \in samplerStates : e.ident = samplerIdent}

\* a known key with a value of its kind sets the field of the key, to the
\* enumerator of the table if the key has one, and no other field
ValueSetsItsField ==
    (SamplerValueAnalysed /\ ValueOfKey(samplerValue)) =>
        /\ \A f \in SamplerStateFields \ {FieldOf(samplerValue.name)} :
               samplerState[f] = samplerBefore.state[f]
        /\ ValueFromTable(samplerValue) =>
               samplerState[FieldOf(samplerValue.name)] =
                   MapSecond(TableOf(samplerValue.name), samplerValue.value.value)
        /\ ~ValueFromTable(samplerValue) =>
               ~samplerState[FieldOf(samplerValue.name)].isDefault
        /\ mreports = samplerBefore.reports

\* the state is stored under the identifier of the sampler if there are
\* statistics, and nothing is stored if there are none
SamplerStateStored ==
    /\ (mpc = "values" /\ valuesAnalysed = 0) =>
            samplerState = DefaultSamplerState /\ mreports = <<>>
    /\ mpc = "done" =>
            IF statistics_ = "null"
            THEN samplerStates = {}
            ELSE StoredSamplerStates = {[ident |-> samplerIdent, state |-> samplerState]}

\* C19, as claimed: a known key with a value of its kind sets exactly the
\* field of the key; every other value, be its key unknown or its value not
\* of the kind of the key, changes no field and reports nothing; the state
\* is stored per identifier when there are statistics
C19_SamplerValueDroppedSilently ==
    /\ ValueSetsItsField
    /\ (SamplerValueAnalysed /\ ~ValueOfKey(samplerValue)) =>
            /\ samplerState = samplerBefore.state
            /\ mreports = samplerBefore.reports
    /\ SamplerStateStored

\* C19, amended: a known key with a value of its kind sets exactly the
\* field of the key; every other value changes no field, and reports nothing
\* unless it is a call or braces given for the border color that are no
\* color, which is reported with one warning; the state is stored per
\* identifier when there are statistics
C19_SamplerValueSetsItsField ==
    /\ ValueSetsItsField
    /\ (SamplerValueAnalysed /\ ~ValueOfKey(samplerValue)) =>
            /\ samplerState = samplerBefore.state
            /\ IF BorderColorInvalid(samplerValue)
               THEN /\ Len(mreports) = Len(samplerBefore.reports) + 1
                    /\ SubSeq(mreports, 1, Len(samplerBefore.reports))
                           = samplerBefore.reports
                    /\ mreports[Len(mreports)].type = "Warning"
               ELSE mreports = samplerBefore.reports
    /\ SamplerStateStored

\* AddressU = WRAP and then AddressU = LINEAR: the second value is dropped,
\* the state stored has the address mode of the first
C19_Witness ==
    /\ mpc = "done"
    /\ statistics_ # "null"
    /\ valuesAnalysed = 2
    /\ samplerValue = SamplerValue("AddressU", SamplerVarAccessExpr("LINEAR"))
    /\ samplerState = [DefaultSamplerState EXCEPT !.addressU = "Wrap"]
    /\ mreports = <<>>
    /\ [ident |-> samplerIdent, state |-> samplerState] \in samplerStates

\* a border color of three arguments is reported with a warning
C19_BorderColorWarned ==
    /\ mpc = "done"
    /\ valuesAnalysed > 0
    /\ samplerValue = SamplerValue("BorderColor",
                                   SamplerInitializerExpr(<<"1", "1", "1">>))
    /\ samplerState = samplerBefore.state
    /\ mreports # samplerBefore.reports

(***************************************************************************)
(* Properties of the code writer                                           *)
(***************************************************************************)
\* what the call made last wrote
Written == SubSeq(wout, Len(wbefore.out) + 1, Len(wout))

OptionsBefore ==
    IF wbefore.optionsStack = <<>> THEN DefaultWriterOptions
    ELSE wbefore.optionsStack[Len(wbefore.optionsStack)]

\* the pieces written since the new line written last
RECURSIVE OpenPieces(_)
OpenPieces(out) ==
    IF out = <<>> \/ out[Len(out)] = "\n" THEN <<>>
    ELSE Append(OpenPieces(SubSeq(out, 1, Len(out) - 1)), out[Len(out)])

Indentations(pieces) == {k \in DOMAIN pieces : pieces[k] = "FullIndent"}

\* C30: BeginLine writes the indentation exactly when it finds no open line
\* and the current options enable it, and no line has two indentations;
\* EndLine writes a new line exactly when it finds an open line and the
\* current options enable new lines, and closes the line exactly then; Write
\* writes its text only; WriteLine is BeginLine, Write and EndLine; PopOptions
\* on an empty stack changes nothing, and the current options are then the
\* default options
C30_WriterLines ==
    /\ Cardinality(Indentations(OpenPieces(wout))) <= 1
    /\ wcall = "BeginLine" =>
          /\ Written = IF ~wbefore.openLine /\ OptionsBefore.enableIndent
                       THEN <<"FullIndent">> ELSE <<>>
          /\ openLine_
          /\ optionsStack_ = wbefore.optionsStack
    /\ wcall = "EndLine" =>
          /\ Written = IF wbefore.openLine /\ OptionsBefore.enableNewLine
                       THEN <<"\n">> ELSE <<>>
          /\ openLine_ = (wbefore.openLine /\ Written = <<>>)
          /\ optionsStack_ = wbefore.optionsStack
    /\ wcall = "Write" =>
          /\ Written = <<"text">>
          /\ openLine_ = wbefore.openLine
          /\ optionsStack_ = wbefore.optionsStack
    /\ wcall = "WriteLine" =>
          /\ Written =
                (IF ~wbefore.openLine /\ OptionsBefore.enableIndent
                 THEN <<"FullIndent">> ELSE <<>>)
                \o <<"text">>
                \o (IF OptionsBefore.enableNewLine THEN <<"\n">> ELSE <<>>)
          /\ openLine_ = ~OptionsBefore.enableNewLine
          /\ optionsStack_ = wbefore.optionsStack
    /\ wcall \in {"PushOptions", "PopOptions"} =>
          /\ Written = <<>>
          /\ openLine_ = wbefore.openLine
    /\ (wcall = "PopOptions" /\ wbefore.optionsStack = <<>>) =>
          /\ optionsStack_ = <<>>
          /\ CurrentOptions(Writer) = DefaultWriterOptions

\* a line left open by an EndLine without new line, and a BeginLine on it
\* that writes no second indentation
C30_Witness ==
    /\ wcall = "BeginLine"
    /\ wbefore.openLine
    /\ wbefore.optionsStack # <<>>
    /\ ~OptionsBefore.enableNewLine
    /\ OptionsBefore.enableIndent
    /\ wout = <<"FullIndent">>

\* PopOptions on an empty stack
C30_WitnessPop ==
    /\ wcall = "PopOptions"
    /\ wbefore.optionsStack = <<>>
    /\ wout # <<>>

(***************************************************************************)
(* Properties of the constant expression evaluator                         *)
(***************************************************************************)
EvaluationDone == epc = "done"

ReturnedNormally == EvaluationDone /\ evaluation.evaluator.thrown = ""

\* C24: an evaluation that returns normally leaves the stack empty, and every
\* visit of a sub expression that returned left one value more on the stack
\* than it found, suffix and array access expressions included
C24_OneValuePerVisit ==
    ReturnedNormally =>
        /\ evaluation.evaluator.variantStack_ = <<>>
        /\ \A i \in 1 .. Len(evaluation.evaluator.visits) :
               evaluation.evaluator.visits[i].after =
                   evaluation.evaluator.visits[i].before + 1

\* an array access was evaluated and EvaluateExpr returned
C24_Witness ==
    /\ ReturnedNormally
    /\ constExpr.type = "ArrayAccessExpr"
    /\ ecaller = "ParseAndEvaluateConstExpr"

\* the values of (2)[1]: the index is returned and the array is left behind
C24_ArrayAccessLeavesValues ==
    /\ ReturnedNormally
    /\ constExpr = ConstArrayAccessExpr(
           ConstBracketExpr(ConstLiteralExpr("Int", "2")),
           <<ConstLiteralExpr("Int", "1")>>)
    /\ evaluation.result = VariantInt(1)
    /\ evaluation.evaluator.variantStack_ = <<VariantInt(2)>>

\* the evaluation of a sub expression of the expression evaluated
SubEvaluation(ast) == EvaluateExpr(ast, ecallback).evaluator

Selected ==
    IF VariantToBool(EvaluateExpr(constExpr.condExpr, ecallback).result)
    THEN constExpr.thenExpr ELSE constExpr.elseExpr

NotSelected ==
    IF VariantToBool(EvaluateExpr(constExpr.condExpr, ecallback).result)
    THEN constExpr.elseExpr ELSE constExpr.thenExpr

IsTernary == EvaluationDone /\ constExpr.type = "TernaryExpr"

IsLogical ==
    /\ EvaluationDone
    /\ constExpr.type = "BinaryExpr"
    /\ constExpr.op \in {"LogicalAnd", "LogicalOr"}

\* C25: behind its condition a ternary expression evaluates the selected
\* branch only: it fails or gives the value as that branch does, and the
\* other branch is not entered; && and || evaluate both operands: they fail
\* when the right operand fails, whatever the left operand gave
C25_TernarySelectsLogicalEvaluatesBoth ==
    /\ (IsTernary /\ SubEvaluation(constExpr.condExpr).thrown = "") =>
           /\ evaluation.evaluator.thrown = SubEvaluation(Selected).thrown
           /\ evaluation.result = EvaluateExpr(Selected, ecallback).result
           /\ evaluation.evaluator.entered =
                  <<constExpr>> \o SubEvaluation(constExpr.condExpr).entered
                      \o SubEvaluation(Selected).entered
    /\ (IsLogical /\ SubEvaluation(constExpr.lhsExpr).thrown = "") =>
           /\ evaluation.evaluator.thrown = SubEvaluation(constExpr.rhsExpr).thrown
           /\ evaluation.evaluator.entered =
                  <<constExpr>> \o SubEvaluation(constExpr.lhsExpr).entered
                      \o SubEvaluation(constExpr.rhsExpr).entered

\* true ? 0 : f() gives 0
C25_Witness ==
    /\ IsTernary
    /\ ReturnedNormally
    /\ SubEvaluation(NotSelected).thrown # ""
    /\ NotSelected.type = "FunctionCallExpr"

\* false && x is no constant expression for the parser
C25_WitnessLogical ==
    /\ IsLogical
    /\ ecaller = "ParseAndEvaluateConstExpr"
    /\ constExpr.op = "LogicalAnd"
    /\ constExpr.lhsExpr = ConstLiteralExpr("Bool", "false")
    /\ constExpr.rhsExpr = ConstVarAccessExpr("x")
    /\ ereports = <<Report("Error", "expected constant expression")>>

RejectedExprs == {"FunctionCallExpr", "InitializerExpr", "TypeNameExpr", "NullExpr"}

IllegalExprs ==
    {"illegal function call", "illegal initializer list", "illegal type specifier",
     "illegal dynamic array dimension"}

EnteredTypes ==
    {evaluation.evaluator.entered[i].type : i \in 1 .. Len(evaluation.evaluator.entered)}

VarAccessesEntered ==
    SelectSeq(evaluation.evaluator.entered, LAMBDA ast : ast.type = "VarAccessExpr")

\* what the callback of the evaluation makes of a variable access
CallbackResult(ident) ==
    IF ecallback = "none" THEN VariantInt(0) ELSE CallbackValue(ident)

\* C22: when the evaluation comes to a function call, an initializer list, a
\* type name or a null expression it ends with the error and without a value,
\* which the parser reports; every variable access it comes to is handed to
\* the callback once, the value of the access is what the callback returned
\* (integer 0 without a callback), and the evaluation ends when the callback
\* throws
C22_RejectedAndVarAccess ==
    EvaluationDone =>
        /\ (EnteredTypes \cap RejectedExprs # {}) =>
               /\ evaluation.evaluator.thrown \in IllegalExprs
               /\ evaluation.result = VariantUndefined
               /\ evaluation.evaluator.entered[Len(evaluation.evaluator.entered)].type
                      \in RejectedExprs
               /\ ecaller = "ParseAndEvaluateConstExpr" =>
                      ereports = <<Report("Error", evaluation.evaluator.thrown)>>
        /\ evaluation.evaluator.accessed =
               [i \in 1 .. Len(VarAccessesEntered) |-> VarAccessesEntered[i].ident]
        /\ \A i \in 1 .. Len(evaluation.evaluator.visits) :
               evaluation.evaluator.visits[i].expr.type = "VarAccessExpr" =>
                   evaluation.evaluator.visits[i].top =
                       CallbackResult(evaluation.evaluator.visits[i].expr.ident)
        /\ (ecallback = "throws" /\ VarAccessesEntered # <<>>) =>
               /\ evaluation.evaluator.thrown = "VarAccessExpr"
               /\ evaluation.result = VariantUndefined
               /\ Len(VarAccessesEntered) = 1

\* x + f() with a callback: the callback ran once, the call was rejected
C22_Witness ==
    /\ EvaluationDone
    /\ ecaller = "EvaluateExpr"
    /\ ecallback = "value"
    /\ evaluation.evaluator.accessed = <<"x">>
    /\ evaluation.evaluator.thrown = "illegal function call"

\* x without a callback is integer 0
C22_WitnessNoCallback ==
    /\ ReturnedNormally
    /\ ecallback = "none"
    /\ constExpr = ConstVarAccessExpr("x")
    /\ evaluation.result = VariantInt(0)

(***************************************************************************)
(* Properties of the directives behind an accepted token                   *)
(***************************************************************************)
AcceptItReturned == lcall = "AcceptIt" /\ lpc = "parsing"

AcceptItThrew == lcall = "AcceptIt" /\ lpc = "failed"

\* the places of the directives AcceptIt consumed behind the token it accepted
DirectivesConsumed ==
    {i \in 2 .. Len(lbefore) - Len(scanned) : lbefore[i].type = "Directive"}

DirectiveErrors ==
    {"only '#line'-directives are allowed after pre-processing",
     "unexpected token, expected IntLiteral",
     "unexpected token, expected StringLiteral"}

\* behind an accepted token the current token is no directive, and every
\* directive consumed was a #line; a Report was thrown otherwise, and the
\* parser of the programs sees the same stream
C21_DirectivesConsumed ==
    /\ AcceptItReturned =>
           /\ ~Is(scanned, "Directive")
           /\ \A i \in DirectivesConsumed : lbefore[i].spell = "line"
           /\ AcceptIt(lbefore) = scanned
    /\ AcceptItThrew =>
           /\ lreports[Len(lreports)].type = "Error"
           /\ lreports[Len(lreports)].message \in DirectiveErrors
           /\ AcceptIt(lbefore) = <<tkThrown>>

\* C21: behind an accepted token the current token is no directive; every
\* directive consumed was a #line and was followed by an integer literal and
\* then a string literal, and an error was recorded otherwise
C21_OnlyWellFormedLineDirectives ==
    /\ AcceptItReturned =>
           /\ ~Is(scanned, "Directive")
           /\ \A i \in DirectivesConsumed :
                  /\ lbefore[i].spell = "line"
                  /\ lbefore[i + 1].type = "IntLiteral"
                  /\ lbefore[i + 2].type = "StringLiteral"
    /\ AcceptItThrew =>
           /\ lreports[Len(lreports)].type = "Error"
           /\ lreports[Len(lreports)].message \in DirectiveErrors

\* ; #line 1 "f" #line 1 "f": both directives are consumed
C21_Witness ==
    /\ AcceptItReturned
    /\ lbefore = <<tkSemicolon, tkLineDirective, tkIntLiteral, tkStringLiteral,
                   tkLineDirective, tkIntLiteral, tkStringLiteral, tkEndOfStream>>
    /\ scanned = <<tkEndOfStream>>
    /\ lreports = <<>>

\* ; #line #line 1 "f" 1 "f" is accepted as well
C21_NestedLineAccepted ==
    /\ AcceptItReturned
    /\ lbefore = <<tkSemicolon, tkLineDirective, tkLineDirective, tkIntLiteral,
                   tkStringLiteral, tkIntLiteral, tkStringLiteral, tkEndOfStream>>
    /\ scanned = <<tkEndOfStream>>
    /\ lreports = <<>>

(***************************************************************************)
(* Properties of the type-name table                                       *)
(***************************************************************************)
\* a statement was parsed in this step
StmntParsed == stmntTokens' = tokens /\ tokens' # tokens

Registered(tbl, names) ==
    IF names = {} THEN tbl ELSE [tbl EXCEPT ![Len(tbl)] = @ \cup names]

\* the step leaves the table as it is but for the typedef names and struct
\* tags of the statement parsed and for one scope opened or closed
TypeNameTableStep ==
    LET reg == Registered(typeNameSymbolTable_,
                          IF StmntParsed THEN StmntTypeNames(stmnt') ELSE {})
    IN  \/ typeNameSymbolTable_' = reg
        \/ typeNameSymbolTable_' = OpenScope(reg)
        \/ /\ ~StmntParsed
           /\ typeNameSymbolTable_' = CloseScope(typeNameSymbolTable_)
        \/ /\ pc = "start"
           /\ typeNameSymbolTable_' =
                  RegisterAll(OpenScope(typeNameSymbolTable_), preDefinedTypes)

\* the statement ( X ) - ( 1 ) ; was parsed where X is a type name in an open
\* scope and the name of something declared since
CastProbeOfDeclared ==
    /\ StmntTokensAre(castProbe)
    /\ pc = "program"
    /\ stmnt # nullptr
    /\ InOpenScope("X", stmntTable)
    /\ "X" \in valuesDeclared

\* C29: a step of the parser changes the type-name table only by the
\* pre-defined aliases, the typedef names and struct tags of the statement it
\* parsed and the scope it opened or closed; declarations of variables,
\* parameters, functions, textures and samplers leave it as it is, and ( X )
\* starts a cast where X is a type name of an open scope, whatever else was
\* declared under that name
C29_TypeNameTableFrame ==
    /\ [][TypeNameTableStep]_vars
    /\ [](CastProbeOfDeclared => LeftMost(stmnt.expr).type = "CastExpr")

\* typedef int X; ... { int X; ( X ) - ( 1 ) ; is a cast
C29_Witness ==
    /\ CastProbeOfDeclared
    /\ "X" \in stmntTable[1]
    /\ Len(stmntTable) >= 3
    /\ stmnt.expr.type = "CastExpr"

\* int X; was parsed in an inner scope and X is the type name it was
C29_WitnessVarDecl ==
    /\ pc = "program"
    /\ stmnt.type = "VarDeclStmnt"
    /\ DeclIdents(stmnt.varDecls) = {"X"}
    /\ Len(stmntTable) >= 3
    /\ "X" \in stmntTable[1]
    /\ typeNameSymbolTable_ = stmntTable

(***************************************************************************)
(* Properties of the analysis of function bodies                           *)
(***************************************************************************)
\* the children of a node, each at its place
Children(ast) ==
    CASE ast.type = "FunctionDecl" -> <<ast.codeBlock>>
      [] ast.type = "StructDeclStmnt" -> ast.members
      [] ast.type = "CodeBlockStmnt" -> <<ast.codeBlock>>
      [] ast.type = "CodeBlock" -> ast.stmnts
      [] ast.type = "ForLoopStmnt" ->
             <<ast.initSmnt, ast.condition, ast.iteration, ast.bodyStmnt>>
      [] ast.type = "WhileLoopStmnt" -> <<ast.condition, ast.bodyStmnt>>
      [] ast.type = "DoWhileLoopStmnt" -> <<ast.bodyStmnt, ast.condition>>
      [] ast.type = "IfStmnt" -> <<ast.condition, ast.bodyStmnt, ast.elseStmnt>>
      [] ast.type = "ElseStmnt" -> <<ast.bodyStmnt>>
      [] ast.type = "SwitchStmnt" -> <<ast.selector>> \o ast.cases
      [] ast.type = "SwitchCase" -> <<ast.expr>> \o ast.stmnts
      [] ast.type = "ExprStmnt" -> <<ast.expr>>
      [] ast.type = "ReturnStmnt" -> <<ast.expr>>
      [] ast.type = "FunctionCallExpr" -> <<ast.call>>
      [] ast.type = "FunctionCall" -> ast.arguments
      [] ast.type = "BinaryExpr" -> <<ast.lhsExpr, ast.rhsExpr>>
      [] ast.type = "BracketExpr" -> <<ast.expr>>
      [] OTHER -> <<>>

\* the paths of the node ast at path and of the nodes below it
RECURSIVE PathsBelow(_, _)
PathsBelow(ast, path) ==
    {path} \cup UNION {PathsBelow(Children(ast)[k], Append(path, k)) :
                          k \in DOMAIN Children(ast)}

ProgramPaths ==
    UNION {PathsBelow(bodyProgram[g], <<g>>) : g \in DOMAIN bodyProgram}

RECURSIVE NodeBelow(_, _, _)
NodeBelow(ast, path, k) ==
    IF k > Len(path) THEN ast ELSE NodeBelow(Children(ast)[path[k]], path, k + 1)

NodeAt(path) == NodeBelow(bodyProgram[path[1]], path, 2)

Parent(path) == SubSeq(path, 1, Len(path) - 1)

\* the function calls that are the whole expression of an expression statement
WholeExprOfExprStmnt(path) ==
    /\ Len(path) > 2
    /\ NodeAt(Parent(path)).type = "FunctionCallExpr"
    /\ NodeAt(Parent(Parent(path))).type = "ExprStmnt"

FlaggedCalls == {f[1] : f \in {g \in callFlags : g[2] = "canInlineIntrinsicWrapper"}}

ClipCalls == {p \in ProgramPaths : IntrinsicAt(callIntrinsics, p) = Intr("Clip", 0)}

\* C23: a function call is flagged canInlineIntrinsicWrapper only when
\* preferWrappers is false, the call is the whole expression of an expression
\* statement and its intrinsic is clip; with preferWrappers true no call is
\* flagged, and a clip call nested in another expression is never flagged
C23_InlineOnlyWholeClipStmnt ==
    /\ \A p \in FlaggedCalls :
          /\ ~stored_.preferWrappers
          /\ p \in ProgramPaths
          /\ NodeAt(p).type = "FunctionCall"
          /\ WholeExprOfExprStmnt(p)
          /\ p \in ClipCalls
    /\ stored_.preferWrappers => callFlags = {}
    /\ \A p \in ClipCalls : ~WholeExprOfExprStmnt(p) => p \notin FlaggedCalls

\* clip(clip(1)); has been analysed: the outer call is flagged, the inner not
C23_Witness ==
    /\ bpc = "done"
    /\ \E p \in FlaggedCalls :
          /\ Append(p, 1) \in ProgramPaths
          /\ Append(Append(p, 1), 1) \in ClipCalls
          /\ Append(Append(p, 1), 1) \notin FlaggedCalls

C23_WitnessPreferWrappers ==
    /\ bpc = "done"
    /\ stored_.preferWrappers
    /\ \E p \in ClipCalls : WholeExprOfExprStmnt(p)
    /\ callFlags = {}

\* the return statements without expression of the function at place g
ReturnsWithoutExpr(g) ==
    {p \in PathsBelow(bodyProgram[g], <<g>>) :
        NodeAt(p).type = "ReturnStmnt" /\ NodeAt(p).expr.type = "nullptr"}

\* the identifiers returned by a return statement of the program
ReturnedIdents ==
    {NodeAt(p).expr.ident :
        p \in {q \in ProgramPaths : /\ NodeAt(q).type = "ReturnStmnt"
                                    /\ NodeAt(q).expr.type = "VarAccessExpr"}}

\* C27: the analysis of a return statement without expression ends without
\* fault, in the entry point too, and sets neither the alias name of a
\* structure nor disableCodeGen on a declaration
C27_ReturnWithoutExprAnalysed ==
    /\ bpc # "crashed"
    /\ \A a \in aliasNames : a[2] \in ReturnedIdents
    /\ ReturnedIdents = {} => declFlags = {}

\* what VisitReturnStmnt does: outside the entry point a return statement
\* without expression is analysed without fault and sets nothing
C27_OutsideEntryPoint ==
    /\ bpc = "crashed" =>
          /\ bodyVisited > 0
          /\ bodyProgram[bodyVisited].type = "FunctionDecl"
          /\ bodyProgram[bodyVisited].ident = stored_.entryPoint
          /\ ReturnsWithoutExpr(bodyVisited) # {}
    /\ (\A g \in DOMAIN bodyProgram :
            bodyProgram[g].type = "FunctionDecl" /\ bodyProgram[g].ident = stored_.entryPoint
                => ReturnsWithoutExpr(g) = {})
          => \A a \in aliasNames : a[2] \in ReturnedIdents

\* void main() { return; } brought the analyzer down
C27_Witness ==
    /\ bpc = "crashed"
    /\ bodyProgram[bodyVisited].ident = "main"
    /\ bodyProgram[bodyVisited].codeBlock.stmnts = <<MakeReturnStmnt(nullptr)>>

\* the scopes still open behind the first k entries of the log, each as the
\* entry that opened it; a CloseScope without its OpenScope leaves Unmatched
Unmatched == <<[op |-> "unmatched", type |-> "", path |-> <<>>]>>

ScopeLogged(open, entry) ==
    IF open = Unmatched
    THEN Unmatched
    ELSE IF entry.op = "OpenScope"
    THEN Append(open, entry)
    ELSE IF open # <<>> /\ open[Len(open)].path = entry.path
    THEN SubSeq(open, 1, Len(open) - 1)
    ELSE Unmatched

RECURSIVE OpenAfter(_, _)
OpenAfter(log, k) ==
    IF k = 0 THEN <<>> ELSE ScopeLogged(OpenAfter(log, k - 1), log[k])

OpenScopes == OpenAfter(scopeLog, Len(scopeLog))

\* how many scopes the visit of a node opens
ScopesOf(type) ==
    IF type \in {"CodeBlock", "StructDeclStmnt", "WhileLoopStmnt", "DoWhileLoopStmnt",
                 "IfStmnt", "ElseStmnt", "SwitchStmnt", "FunctionDecl"}
    THEN 1
    ELSE IF type = "ForLoopStmnt" THEN 2 ELSE 0

Opened(path) ==
    Cardinality({k \in DOMAIN scopeLog :
                    scopeLog[k].op = "OpenScope" /\ scopeLog[k].path = path})

\* the declaration at q is in front of the node at p in a scope around it
DeclaredInFrontOf(q, p) ==
    /\ Len(q) <= Len(p)
    /\ Parent(q) = SubSeq(p, 1, Len(q) - 1)
    /\ q[Len(q)] < p[Len(q)]

VisibleAt(p, ident) ==
    \E q \in ProgramPaths :
        /\ NodeAt(q).type = "VarDeclStmnt"
        /\ NodeAt(q).ident = ident
        /\ DeclaredInFrontOf(q, p)

\* C28: the scopes are closed in last-in-first-out order and none is closed
\* that was not opened; each node opens the scopes of its kind, two for a for
\* loop; when the analysis has returned the symbol table is as deep as at the
\* start and a variable is found only where a declaration in front of it in
\* a scope around it declares it
C28_ScopesNested ==
    /\ OpenScopes # Unmatched
    /\ Len(scopeStack) = 1 + Len(OpenScopes)
    /\ bpc = "done" =>
          /\ Len(scopeStack) = 1
          /\ \A x \in scopeStack[1] : x.type \in {"StructDecl", "FunctionDecl"}
          /\ \A p \in ProgramPaths :
                /\ NodeAt(p).type # "nullptr" => Opened(p) = ScopesOf(NodeAt(p).type)
                /\ NodeAt(p).type = "VarAccessExpr" =>
                      (SymbolRefAt([refs |-> symbolRefs], p) # nullptr
                          <=> VisibleAt(p, NodeAt(p).ident))

\* for (int i; ...) ...; i; has been analysed: i is not found behind the loop
C28_Witness ==
    /\ bpc = "done"
    /\ \E p \in ProgramPaths :
          /\ NodeAt(p).type = "VarAccessExpr"
          /\ NodeAt(p).ident = "i"
          /\ SymbolRefAt([refs |-> symbolRefs], p) = nullptr
          /\ \E q \in ProgramPaths :
                /\ NodeAt(q).type = "ForLoopStmnt"
                /\ NodeAt(Append(q, 1)).type = "VarDeclStmnt"
                /\ Opened(q) = 2
                /\ Parent(q) = SubSeq(p, 1, Len(q) - 1)
    /\ \E k \in DOMAIN breports : breports[k].message = "undeclared identifier"

\* an else in an if in a while in the block of a for loop has opened and
\* closed its scope
C28_WitnessNested ==
    /\ bpc = "done"
    /\ Len(scopeStack) = 1
    /\ \E k \in DOMAIN scopeLog : scopeLog[k].type = "ElseStmnt" /\ Len(scopeLog[k].path) > 6

====
